---------------------------- MODULE Spec2Model ----------------------------
(***************************************************************************)
(* Verification model of the Veris oracle agent (Sneekyboots/verisafe).    *)
(*                                                                         *)
(*   backend/oracle/price-fetcher.js   4-source median aggregation         *)
(*   backend/zk/groth16-prover.js      proof generation / verification     *)
(*   backend/oracle/agent.js           submitOnce / runContinuous          *)
(*   oracle-agent-zk.js                submitWithZKProof                   *)
(*   backend/greenfield/client.js      uploadProof, listProofs, checksums  *)
(*                                                                         *)
(* Numbers.  A JavaScript number that carries a price is modelled as an    *)
(* integer count of ticks, one tick being a quarter of a dollar.  Source   *)
(* quotes are even numbers of ticks, so that the mean of two quotes, which *)
(* is what median() computes for an even count, is again a whole number of *)
(* ticks and every median and every devBps value is computed exactly.      *)
(* devBps is scale invariant, so the unit does not change its value.       *)
(* Floating point rounding error of the division is not modelled.          *)
(***************************************************************************)
EXTENDS Integers, Sequences, FiniteSets, TLC

VARIABLES
    \* ---- fetchAggregatedPrice called on its own (specification SpecAgg) ----
    aggPc,          \* "idle" | "returned" | "threw" | "off"
    responses,      \* what each of the 4 sources answered to the last call
    overridePrice,  \* the overridePrice argument: null, or a text (see Overrides)
    aggOut,         \* what the call returned or threw
    queried,        \* the sources fetchOne was invoked on during the call
    tampered,       \* 0, or the source whose answer was replaced before a second call
    \* ---- one run of an agent (specification Spec) ----
    program,        \* "agent" (backend/oracle/agent.js) | "zk" (oracle-agent-zk.js) | "off"
    continuous,     \* agent.js was started with --continuous
    cliPrice,       \* the --price argument (see Overrides)
    useLegacy,      \* oracle-agent-zk.js was started with --legacy
    circuit,        \* which proof-engine artifacts exist on disk
    pc,             \* the statement the run is at
    cycle,          \* number of the current cycle (call of submitOnce), from 1
    attempt,        \* the loop variable i of the retry() in progress
    now,            \* Date.now() / 1000
    provider,       \* index in RPC_LIST of the provider in use, 0 = none
    priceResult,    \* result of fetchAggregatedPrice in this cycle
    proofData,      \* result of generateProof in this cycle
    localOk,        \* result of the caller's verifyProof in this cycle
    gfResult,       \* the pre-submission archive entry
    tx,             \* the transaction response of the send that succeeded
    receipt,        \* the receipt tx.wait() returned
    trace,          \* the calls made in this cycle, in order, each with its outcome
    nProofs,        \* proofs the engine has produced so far
    txLog,          \* every invocation of submitPriceWithProof / submitPrice, in order
    localDir,       \* backend/greenfield-proofs: object name -> stored record
    submissions,    \* agent/logs/submission-<timestamp>.json: timestamp -> record
    ok,             \* runContinuous: cycles that returned
    fail,           \* runContinuous: cycles that threw
    faults,         \* failures the environment has caused so far (bounded by MaxFaults)
    \* ---- calls made beside a run of the agent ----
    health,         \* a call of healthCheck(): the statement it is at, the lines it logged
    \* ---- the HTTP server (specification SpecHttp) ----
    http,           \* the server process and its POST /oracle/submit requests
    \* ---- the contracts (specification SpecVault) ----
    chain           \* storage of a CollateralVault and of CreditNFT, the block time, the last call

aggVars == <<aggPc, responses, overridePrice, aggOut, queried, tampered>>

otherVars == <<health, http, chain>>

cycleVars == <<provider, priceResult, proofData, localOk, gfResult, tx, receipt>>

agentVars == <<program, continuous, cliPrice, useLegacy, circuit, pc, cycle, attempt, now,
               provider, priceResult, proofData, localOk, gfResult, tx, receipt,
               trace, nProofs, txLog, localDir, submissions, ok, fail, faults>>

vars == <<aggPc, responses, overridePrice, aggOut, queried, tampered,
          program, continuous, cliPrice, useLegacy, circuit, pc, cycle, attempt, now,
          provider, priceResult, proofData, localOk, gfResult, tx, receipt,
          trace, nProofs, txLog, localDir, submissions, ok, fail, faults,
          health, http, chain>>

-----------------------------------------------------------------------------
(* JavaScript values *)

\* parseFloat of text holding no number; the only non-finite number the model produces
NaN == -1000000

\* JavaScript null (the price of a failed observation, an absent overridePrice)
Null == -2000000

isFinite(x) == x # NaN /\ x # Null

Abs(x) == IF x < 0 THEN -x ELSE x

Digits == {"0", "1", "2", "3", "4", "5", "6", "7", "8", "9"}

DigitValue(c) ==
    CASE c = "0" -> 0 [] c = "1" -> 1 [] c = "2" -> 2 [] c = "3" -> 3 [] c = "4" -> 4
      [] c = "5" -> 5 [] c = "6" -> 6 [] c = "7" -> 7 [] c = "8" -> 8 [] c = "9" -> 9

\* number of leading decimal digits of the character sequence s
RECURSIVE DigitPrefixLen(_)
DigitPrefixLen(s) ==
    IF s = <<>> \/ Head(s) \notin Digits THEN 0 ELSE 1 + DigitPrefixLen(Tail(s))

\* value, in dollars, of the digit sequence s
RECURSIVE DigitsValue(_)
DigitsValue(s) ==
    IF s = <<>> THEN 0 ELSE 10 * DigitsValue(SubSeq(s, 1, Len(s) - 1)) + DigitValue(s[Len(s)])

\* mutant: Number(s) in place of parseFloat(s): text after the digits makes it NaN
parseFloat_Whole(s) ==
    IF s = <<>> \/ DigitPrefixLen(s) < Len(s) THEN NaN ELSE 4 * DigitsValue(s)

\* parseFloat on a sequence of characters without sign, point or exponent: the
\* longest prefix of digits is the number, text after it is ignored, and a text
\* that does not start with a digit is NaN.  The result is in ticks (4 per dollar).
parseFloat(s) ==
    LET n == DigitPrefixLen(s)
    IN  IF n = 0 THEN NaN ELSE 4 * DigitsValue(SubSeq(s, 1, n))

-----------------------------------------------------------------------------
(* price-fetcher.js *)

MAX_DEVIATION_BPS == 200

\* mutant: a single source is a quorum
MIN_SOURCES_One == 2 - 1
MIN_SOURCES == 2

SOURCES == <<"Binance", "Coinbase", "Kraken", "CoinGecko">>
SourceIds == 1..Len(SOURCES)

\* ---- bounds of the inputs ----
MaxQuoteSteps == 1
MaxOverrideLen == 3

\* quotes a source can answer, in ticks: 349.50, 350.00, 351.00 and 500.00 dollars
\* (the documented scenario) and a grid of 3.50 dollar steps upward from 343.00
\* (343.00 is 200 bps below 350.00)
Quotes == {1398, 1400, 1404, 2000} \cup {1372 + 14 * k : k \in 0..MaxQuoteSteps}

\* what one HTTP exchange with a source can come to: no usable answer (no answer
\* within FETCH_TIMEOUT_MS, or a body that is not the expected JSON: fetch, res.json
\* or parse throws), or a JSON whose price field parses to some number (NaN, zero
\* and negative numbers included)
RawResponses ==
    {[kind |-> "timeout", price |-> Null]}
    \cup {[kind |-> "json", price |-> p] : p \in Quotes \cup {0, -2, NaN}}

OverrideChars == {"2", "0", "x"}

RECURSIVE SeqsUpTo(_, _)
SeqsUpTo(S, n) ==
    IF n = 0 THEN {<<>>}
    ELSE LET shorter == SeqsUpTo(S, n - 1)
         IN  shorter \cup {Append(s, c) : s \in shorter, c \in S}

\* values of the overridePrice argument: null (given = FALSE), or a --price text
NoOverride == [given |-> FALSE, text |-> <<>>]
Overrides ==
    {NoOverride} \cup {[given |-> TRUE, text |-> s] : s \in SeqsUpTo(OverrideChars, MaxOverrideLen)}

\* the answers considered in a call that is given an override, where no answer is read
OverrideRunResponses ==
    {[kind |-> "timeout", price |-> Null]} \cup {[kind |-> "json", price |-> p] : p \in {1400, 2000}}

\* fetchOne never throws: every failure is caught and recorded as ok = false
fetchOne(i, raw) ==
    IF raw.kind = "json" /\ isFinite(raw.price) /\ raw.price > 0
    THEN [name |-> SOURCES[i], price |-> raw.price, ok |-> TRUE]
    ELSE [name |-> SOURCES[i], price |-> Null, ok |-> FALSE]

\* [...arr].sort((a, b) => a - b)
RECURSIVE Insert(_, _)
Insert(x, s) ==
    IF s = <<>> THEN <<x>>
    ELSE IF x <= Head(s) THEN <<x>> \o s
    ELSE <<Head(s)>> \o Insert(x, Tail(s))

RECURSIVE SortAsc(_)
SortAsc(arr) == IF arr = <<>> THEN <<>> ELSE Insert(Head(arr), SortAsc(Tail(arr)))

RECURSIVE SumOf(_)
SumOf(s) == IF s = <<>> THEN 0 ELSE Head(s) + SumOf(Tail(s))

\* mutant: the mean in place of the median
median_Mean(arr) == SumOf(arr) \div Len(arr)

\* arrays are 0-based in the source and 1-based here: s[m] there is s[m + 1] here
median(arr) ==
    LET s == SortAsc(arr)
        m == Len(s) \div 2
    IN  IF Len(s) % 2 = 1 THEN s[m + 1] ELSE (s[m] + s[m + 1]) \div 2

\* Math.round(Math.abs(a - b) / b * 10_000), for b > 0: round half up
devBps(a, b) == (2 * Abs(a - b) * 10000 + b) \div (2 * b)

\* mutants of the outlier filter: one rejects a deviation of exactly
\* MAX_DEVIATION_BPS, the other rejects nothing
RECURSIVE SeqFilterValid_Strict(_, _)
SeqFilterValid_Strict(rs, med1) ==
    IF rs = <<>> THEN <<>>
    ELSE (IF devBps(Head(rs).price, med1) < MAX_DEVIATION_BPS THEN <<Head(rs)>> ELSE <<>>)
         \o SeqFilterValid_Strict(Tail(rs), med1)

SeqFilterValid_KeepAll(rs, med1) == rs

\* mutant: the filter lets through twice the deviation
RECURSIVE SeqFilterValid_Wide(_, _)
SeqFilterValid_Wide(rs, med1) ==
    IF rs = <<>> THEN <<>>
    ELSE (IF devBps(Head(rs).price, med1) <= 2 * MAX_DEVIATION_BPS THEN <<Head(rs)>> ELSE <<>>)
         \o SeqFilterValid_Wide(Tail(rs), med1)

\* successful.filter(r => devBps(r.price, med1) <= MAX_DEVIATION_BPS)
RECURSIVE SeqFilterValid(_, _)
SeqFilterValid(rs, med1) ==
    IF rs = <<>> THEN <<>>
    ELSE (IF devBps(Head(rs).price, med1) <= MAX_DEVIATION_BPS THEN <<Head(rs)>> ELSE <<>>)
         \o SeqFilterValid(Tail(rs), med1)

\* mutant: a deviation of exactly MAX_DEVIATION_BPS is reported as an outlier
RECURSIVE SeqFilterOutliers_Inclusive(_, _)
SeqFilterOutliers_Inclusive(rs, med1) ==
    IF rs = <<>> THEN <<>>
    ELSE (IF devBps(Head(rs).price, med1) >= MAX_DEVIATION_BPS THEN <<Head(rs)>> ELSE <<>>)
         \o SeqFilterOutliers_Inclusive(Tail(rs), med1)

\* successful.filter(r => devBps(r.price, med1) > MAX_DEVIATION_BPS)
RECURSIVE SeqFilterOutliers(_, _)
SeqFilterOutliers(rs, med1) ==
    IF rs = <<>> THEN <<>>
    ELSE (IF devBps(Head(rs).price, med1) > MAX_DEVIATION_BPS THEN <<Head(rs)>> ELSE <<>>)
         \o SeqFilterOutliers(Tail(rs), med1)

RECURSIVE SeqFilterOk(_)
SeqFilterOk(rs) ==
    IF rs = <<>> THEN <<>>
    ELSE (IF Head(rs).ok THEN <<Head(rs)>> ELSE <<>>) \o SeqFilterOk(Tail(rs))

Prices(rs) == [k \in 1..Len(rs) |-> rs[k].price]

RECURSIVE MaxOf(_)
MaxOf(s) == IF Len(s) = 1 THEN s[1]
            ELSE LET r == MaxOf(Tail(s)) IN IF Head(s) >= r THEN Head(s) ELSE r

\* The value of one call fetchAggregatedPrice(override) when the sources answer raw.
\* thrown = TRUE stands for the two throw statements; queriedSources is the set of
\* sources fetchOne was called on.
fetchAggregatedPrice(override, raw) ==
    IF override.given THEN
        LET p == parseFloat(override.text)
        IN  [thrown |-> FALSE, price |-> p,
             sources |-> <<[name |-> "OVERRIDE", price |-> p, ok |-> TRUE]>>,
             validSources |-> <<>>, outliers |-> <<>>,
             spread |-> 0, validCount |-> 1, override |-> TRUE, queriedSources |-> {}]
    ELSE
        LET results    == [i \in SourceIds |-> fetchOne(i, raw[i])]
            successful == SeqFilterOk(results)
            failure    == [thrown |-> TRUE, price |-> Null, sources |-> results,
                           validSources |-> <<>>, outliers |-> <<>>, spread |-> 0,
                           validCount |-> 0, override |-> FALSE,
                           queriedSources |-> SourceIds]
        IN  IF Len(successful) < MIN_SOURCES THEN failure
            ELSE
                LET med1     == median(Prices(successful))
                    valid    == SeqFilterValid(successful, med1)
                    outliers == SeqFilterOutliers(successful, med1)
                IN  IF Len(valid) < MIN_SOURCES
                    THEN [failure EXCEPT !.outliers = outliers]
                    ELSE
                        LET finalPrices == Prices(valid)
                            finalMedian == median(finalPrices)
                            spread == MaxOf([k \in 1..Len(finalPrices) |->
                                                devBps(finalPrices[k], finalMedian)])
                        IN  [thrown |-> FALSE, price |-> finalMedian, sources |-> results,
                             validSources |-> valid, outliers |-> outliers,
                             spread |-> spread, validCount |-> Len(valid),
                             override |-> FALSE, queriedSources |-> SourceIds]

NoResult == [thrown |-> FALSE, price |-> Null, sources |-> <<>>, validSources |-> <<>>,
             outliers |-> <<>>, spread |-> 0, validCount |-> 0, override |-> FALSE,
             queriedSources |-> {}]

-----------------------------------------------------------------------------
(* backend/zk/groth16-prover.js *)

\* ---- bounds of the inputs ----
MaxSalt == 1
MaxCycles == 2
MaxFaults == 3

\* crypto.randomBytes(31) read as an integer
Salts == 0..MaxSalt

\* BN128 field modulus, as the 32 bytes of its big-endian representation
\* (0x30644e72e131a029b85045b68181585d2833e84879b9709143e1f593f0000001)
FIELD_MODULUS ==
    <<48, 100, 78, 114, 225, 49, 160, 41, 184, 80, 69, 182, 129, 129, 88, 93,
      40, 51, 232, 72, 121, 185, 112, 145, 67, 225, 245, 147, 240, 0, 0, 1>>

\* mutant: the salt is drawn from 32 bytes
SaltBytes_Whole == Len(FIELD_MODULUS)

\* crypto.randomBytes(31)
SaltBytes == 31

\* the byte values a drawn buffer is filled with
ByteSamples == {0, 48, 255}

\* crypto.randomBytes(n): n bytes; the model draws buffers of one repeated byte
randomBytes(n) == {[i \in 1..n |-> b] : b \in ByteSamples}

\* BigInt("0x" + bytes.toString("hex")): a number of at most 32 bytes, written with
\* 32 bytes so that equal numbers are equal sequences
BigInt(bytes) ==
    [i \in 1..32 |-> IF i <= 32 - Len(bytes) THEN 0 ELSE bytes[i - (32 - Len(bytes))]]

\* a < b for two numbers of 32 bytes
LessThan(a, b) ==
    \E i \in 1..32 : a[i] < b[i] /\ \A j \in 1..(i - 1) : a[j] = b[j]

\* do { salt = BigInt("0x" + randomBytes(31)) } while (salt >= FIELD_MODULUS), when
\* randomBytes returns draws[1], draws[2], ... : the salt the loop ends with and the
\* number of draws made, or ended = FALSE when every draw given was rejected
RECURSIVE SampleSaltFrom(_, _)
SampleSaltFrom(draws, i) ==
    IF i > Len(draws) THEN [ended |-> FALSE, iterations |-> Len(draws), salt |-> <<>>]
    ELSE IF ~LessThan(BigInt(draws[i]), FIELD_MODULUS) THEN SampleSaltFrom(draws, i + 1)
    ELSE [ended |-> TRUE, iterations |-> i, salt |-> BigInt(draws[i])]

SampleSalt(draws) == SampleSaltFrom(draws, 1)

\* the artifacts under circuits/build: the compiled circuit, the proving key, and
\* the verification key, which can be absent, the one that belongs to the proving
\* key ("ok"), or one left from another setup run ("stale")
CircuitStates == [wasm : BOOLEAN, zkey : BOOLEAN, vkey : {"ok", "stale", "absent"}]

\* checkCircuitFiles: TRUE when it returns, FALSE when it throws
\* the installations a run starts from: complete, one file missing, or a
\* verification key that is stale or missing
InstalledCircuits ==
    { c \in CircuitStates :
        \/ c.wasm /\ c.zkey
        \/ c.vkey = "ok" /\ (c.wasm \/ c.zkey) }

checkCircuitFiles(files) == files.wasm /\ files.zkey

\* BigInt(Math.round(priceUSD * 1e8)), in units of 10^6 (a tick is 0.25 dollars)
ToFixedPoint(priceUSD) == priceUSD * 25

\* mutant: the commitment does not depend on the salt
Poseidon_Unsalted(price, timestamp, salt) == [poseidon |-> <<price, timestamp, 0>>]

\* the circuit's output Poseidon(price, timestamp, salt), taken as collision free
Poseidon(price, timestamp, salt) == [poseidon |-> <<price, timestamp, salt>>]

\* "0x" + BigInt(publicSignals[0]).toString(16).padStart(64, "0")
ToHex32(signal) == [hex |-> signal]

\* snarkjs.groth16.fullProve: the id-th proof the engine produces.  The curve points
\* are kept symbolic, in projective form (a third coordinate "1", a third row
\* ["1", "0"]); statement is the public input the proof is bound to.
fullProve(input, id) ==
    LET signals == <<Poseidon(input.price, input.timestamp, input.salt),
                     input.price, input.timestamp>>
    IN  [proof |-> [pi_a |-> <<<<"a0", id>>, <<"a1", id>>, <<"1", 0>>>>,
                    pi_b |-> << <<<<"b00", id>>, <<"b01", id>>>>,
                                <<<<"b10", id>>, <<"b11", id>>>>,
                                <<<<"1", 0>>, <<"0", 0>>>> >>,
                    pi_c |-> <<<<"c0", id>>, <<"c1", id>>, <<"1", 0>>>>,
                    protocol |-> "groth16", curve |-> "bn128",
                    statement |-> signals],
         publicSignals |-> signals]

\* mutant: the verifier checks the proof without its public signals
groth16Verify_ProofOnly(vkey, publicSignals, proof) == vkey = "ok"

\* snarkjs.groth16.verify(vkey, publicSignals, proof)
groth16Verify(vkey, publicSignals, proof) ==
    vkey = "ok" /\ proof.statement = publicSignals

NoProofData == [thrown |-> FALSE, present |-> FALSE]

\* verifyProof(proof, publicSignals): "true", "false" or "throws"
verifyProof(proof, publicSignals, files) ==
    IF ~checkCircuitFiles(files) \/ files.vkey = "absent" THEN "throws"
    ELSE IF groth16Verify(files.vkey, publicSignals, proof) THEN "true"
    ELSE "false"

\* mutant: generateProof verifies what it produced and throws when that fails
generateProof_Verifying(priceUSD, clock, salt, engineOk, files, id) ==
    IF ~checkCircuitFiles(files) \/ ~isFinite(priceUSD) \/ ~engineOk
       \/ files.vkey # "ok"
    THEN [thrown |-> TRUE, present |-> FALSE, error |-> "proof"]
    ELSE
        LET price     == ToFixedPoint(priceUSD)
            timestamp == clock
            out       == fullProve([price |-> price, timestamp |-> timestamp, salt |-> salt], id)
        IN  [thrown |-> FALSE, present |-> TRUE,
             proof |-> out.proof,
             publicSignals |-> out.publicSignals,
             commitment |-> ToHex32(out.publicSignals[1]),
             salt |-> salt,
             price |-> price,
             timestamp |-> timestamp,
             priceUSD |-> priceUSD,
             sources |-> <<>>]

\* generateProof(priceUSD) called at time clock, when randomBytes gives salt and the
\* engine either produces its id-th proof or throws
generateProof(priceUSD, clock, salt, engineOk, files, id) ==
    IF ~checkCircuitFiles(files) THEN [thrown |-> TRUE, present |-> FALSE, error |-> "config"]
    ELSE IF ~isFinite(priceUSD) THEN [thrown |-> TRUE, present |-> FALSE, error |-> "range"]
    ELSE IF ~engineOk THEN [thrown |-> TRUE, present |-> FALSE, error |-> "engine"]
    ELSE
        LET price     == ToFixedPoint(priceUSD)
            timestamp == clock
            out       == fullProve([price |-> price, timestamp |-> timestamp, salt |-> salt], id)
        IN  [thrown |-> FALSE, present |-> TRUE,
             proof |-> out.proof,
             publicSignals |-> out.publicSignals,
             commitment |-> ToHex32(out.publicSignals[1]),
             salt |-> salt,
             price |-> price,
             timestamp |-> timestamp,
             priceUSD |-> priceUSD,
             sources |-> <<>>]

\* saveToGreenfield(proofData, txHash): writes zk-proof-<timestamp>.json into the
\* local directory dir, or throws when the write fails
saveToGreenfield(pd, txHash, dir, diskOk) ==
    LET filename == <<"zk-proof-", pd.timestamp, ".json">>
        record   == [objectId |-> <<"veris-zk-proof-", pd.timestamp>>,
                     zkProof  |-> [proof |-> pd.proof, publicSignals |-> pd.publicSignals,
                                   commitment |-> pd.commitment],
                     witness  |-> [price |-> pd.price, timestamp |-> pd.timestamp,
                                   salt |-> pd.salt, priceUSD |-> pd.priceUSD],
                     onChain  |-> [txHash |-> txHash]]
    IN  IF ~diskOk THEN [thrown |-> TRUE, dir |-> dir]
        ELSE [thrown |-> FALSE,
              dir |-> [n \in DOMAIN dir \cup {filename} |->
                          IF n = filename THEN record ELSE dir[n]],
              filename |-> filename, objectId |-> record.objectId]

-----------------------------------------------------------------------------
(* backend/greenfield/client.js *)

\* txHash.slice(0, 10): of "pending-<timestamp>" the word and the first two digits
\* of the (4-digit) timestamp, of a transaction hash "0x" and its first 8 digits
Slice10(txHash) ==
    IF txHash.kind = "pending" THEN <<"pending-", txHash.timestamp \div 100>>
    ELSE <<"0x", txHash.hash>>

\* `veris-proof-${proofData.timestamp}-${txHash.slice(0, 10)}.json`
ObjectName(timestamp, txHash) == <<"veris-proof-", timestamp, Slice10(txHash), ".json">>

\* ethers.keccak256(ethers.toUtf8Bytes(text)), taken as collision free
keccak256(text) == [keccak |-> text]

ArchiveRecord(pd, txHash, wallet) ==
    [public   |-> [price |-> pd.price, priceUSD |-> pd.priceUSD,
                   timestamp |-> pd.timestamp, commitment |-> pd.commitment],
     zkProof  |-> [proof |-> pd.proof, publicSignals |-> pd.publicSignals],
     witness  |-> [salt |-> pd.salt],
     sources  |-> pd.sources,
     onChain  |-> [txHash |-> txHash],
     submitter |-> wallet]

\* The remote steps of uploadProof, in the order of the code: getSDKClient (null when
\* the SDK cannot be loaded or Client.create throws), client.sp.getStorageProviders,
\* the address of the primary provider (an Error when none is found),
\* computeExpectChecksums, client.object.createObject, broadcastTx and
\* client.object.uploadObject.
RemoteSteps ==
    <<"getSDKClient", "getStorageProviders", "extractSpAddr", "computeExpectChecksums",
      "createObject", "broadcastTx", "uploadObject">>

\* which remote step fails in a call of uploadProof: 0 when none does
RemoteFailures == 0..Len(RemoteSteps)

\* the calls uploadProof makes after the local write when step failsAt fails
RemoteCalls(failsAt) ==
    SubSeq(RemoteSteps, 1, IF failsAt = 0 THEN Len(RemoteSteps) ELSE failsAt)

\* mutant: a failure of a remote step leaves uploadProof as an exception
uploadProof_Rethrowing(pd, txHash, wallet, dir, diskOk, failsAt) ==
    LET objectName == ObjectName(pd.timestamp, txHash)
        record     == ArchiveRecord(pd, txHash, wallet)
        written    == [n \in DOMAIN dir \cup {objectName} |->
                          IF n = objectName THEN record ELSE dir[n]]
    IN  IF ~diskOk THEN [thrown |-> TRUE, dir |-> dir, calls |-> <<"writeFileSync">>]
        ELSE IF failsAt # 0
             THEN [thrown |-> TRUE, dir |-> written,
                   calls |-> <<"writeFileSync">> \o RemoteCalls(failsAt)]
        ELSE [thrown |-> FALSE,
              dir |-> written,
              calls |-> <<"writeFileSync">> \o RemoteCalls(failsAt),
              objectName |-> objectName,
              greenfieldRef |-> keccak256(objectName),
              onGreenfield |-> TRUE]

\* mutant: the local copy is written after the remote steps, and only when they failed
uploadProof_LocalAsFallback(pd, txHash, wallet, dir, diskOk, failsAt) ==
    LET objectName == ObjectName(pd.timestamp, txHash)
        record     == ArchiveRecord(pd, txHash, wallet)
        written    == [n \in DOMAIN dir \cup {objectName} |->
                          IF n = objectName THEN record ELSE dir[n]]
    IN  IF failsAt # 0 /\ ~diskOk
        THEN [thrown |-> TRUE, dir |-> dir,
              calls |-> RemoteCalls(failsAt) \o <<"writeFileSync">>]
        ELSE [thrown |-> FALSE,
              dir |-> IF failsAt = 0 THEN dir ELSE written,
              calls |-> IF failsAt = 0 THEN RemoteCalls(failsAt)
                        ELSE RemoteCalls(failsAt) \o <<"writeFileSync">>,
              objectName |-> objectName,
              greenfieldRef |-> keccak256(objectName),
              onGreenfield |-> failsAt = 0]

\* uploadProof(proofData, txHash, wallet) with the local directory dir, when the
\* local write succeeds or not (diskOk) and remote step failsAt fails (0: none).
\* fs.writeFileSync comes first and its exception leaves the function; the remote
\* steps follow inside one try whose catch only warns (getSDKClient has its own).
uploadProof(pd, txHash, wallet, dir, diskOk, failsAt) ==
    LET objectName == ObjectName(pd.timestamp, txHash)
        record     == ArchiveRecord(pd, txHash, wallet)
    IN  IF ~diskOk THEN [thrown |-> TRUE, dir |-> dir, calls |-> <<"writeFileSync">>]
        ELSE [thrown |-> FALSE,
              dir |-> [n \in DOMAIN dir \cup {objectName} |->
                          IF n = objectName THEN record ELSE dir[n]],
              calls |-> <<"writeFileSync">> \o RemoteCalls(failsAt),
              objectName |-> objectName,
              greenfieldRef |-> keccak256(objectName),
              onGreenfield |-> failsAt = 0]

\* array.slice(start) and array.slice(start, end) of JavaScript: a negative index
\* counts from the end, and -0 is 0
SliceIndex(i, len) ==
    IF i < 0 THEN (IF len + i < 0 THEN 0 ELSE len + i)
    ELSE IF i > len THEN len ELSE i

Slice(arr, start, end) ==
    LET from == SliceIndex(start, Len(arr))
        to   == SliceIndex(end, Len(arr))
    IN  IF from >= to THEN <<>> ELSE SubSeq(arr, from + 1, to)

SliceFrom(arr, start) == Slice(arr, start, Len(arr))

Reverse(arr) == [i \in 1..Len(arr) |-> arr[Len(arr) + 1 - i]]

\* The order of two file names as texts: "veris-proof-..." comes before "zk-proof-...";
\* the timestamps have equal length, so they compare as numbers; after the timestamp
\* "0x..." comes before "pending-...", and two hashes or two pending marks compare by
\* their digits.
NameBefore(a, b) ==
    IF a[1] # b[1] THEN a[1] = "veris-proof-"
    ELSE IF a[2] # b[2] THEN a[2] < b[2]
    ELSE IF a[1] # "veris-proof-" THEN FALSE
    ELSE IF a[3][1] # b[3][1] THEN a[3][1] = "0x"
    ELSE a[3][2] < b[3][2]

\* fs.readdirSync(LOCAL_DIR): the names in the directory, in the order of the names
\* (scandir sorts them)
RECURSIVE SortedNames(_)
SortedNames(names) ==
    IF names = {} THEN <<>>
    ELSE LET first == CHOOSE n \in names : \A m \in names \ {n} : NameBefore(n, m)
         IN  <<first>> \o SortedNames(names \ {first})

readdirSync(dir) == SortedNames(DOMAIN dir)

\* what the storage provider answers to listProofs: no SDK client, a listObjects call
\* that throws, or the objects of the bucket
NoClient == [client |-> FALSE, listed |-> FALSE, objects |-> <<>>]
ListFails == [client |-> TRUE, listed |-> FALSE, objects |-> <<>>]
Listing(objects) == [client |-> TRUE, listed |-> TRUE, objects |-> objects]

\* listProofs(limit) over the local directory dir and the provider's answer.
\* Every file the model puts into the directory ends in ".json", so the filter keeps
\* all names; a missing directory and an empty one both give []; the size field of
\* a remote entry is left out.
listProofs(limit, dir, remote) ==
    IF remote.client /\ remote.listed
    THEN LET page == Slice(remote.objects, 0, limit)
         IN  [i \in 1..Len(page) |-> [name |-> page[i], source |-> "greenfield"]]
    ELSE IF DOMAIN dir = {} THEN <<>>
    ELSE LET page == Reverse(SliceFrom(readdirSync(dir), 0 - limit))
         IN  [i \in 1..Len(page) |-> [name |-> page[i], source |-> "local"]]

\* the erasure-coding shape: 4 data shards and 2 parity shards
EC_DATA == 4
EC_PARITY == 2

\* crypto.createHash("sha256").update(bytes).digest(): 32 bytes, taken as collision free
sha256(bytes) == [digest |-> "sha256", of |-> bytes]

\* a 32-byte digest computed by a helper of the SDK
SdkDigest(helper, i) == [digest |-> helper, of |-> i]

\* the length in bytes of a checksum entry
ByteLength(c) == IF c.digest \in {"sha256", "checksumObj", "getCheckSums"} THEN 32 ELSE 0

\* a ^ b on bytes
RECURSIVE Xor(_, _)
Xor(a, b) ==
    IF a = 0 THEN b
    ELSE IF b = 0 THEN a
    ELSE 2 * Xor(a \div 2, b \div 2) + ((a + b) % 2)

\* manualChecksums(bytes). Buffer.prototype.copy throws a RangeError
\* (ERR_OUT_OF_RANGE) when sourceStart is greater than the length of the source, and
\* copies nothing when sourceStart >= sourceEnd.
manualChecksums(bytes) ==
    LET shardSize == (Len(bytes) + EC_DATA - 1) \div EC_DATA
        sourceStart(i) == i * shardSize
        sourceEnd(i) == IF (i + 1) * shardSize < Len(bytes) THEN (i + 1) * shardSize
                        ELSE Len(bytes)
        shard(i) == [b \in 1..shardSize |->
                        IF sourceStart(i) + b <= sourceEnd(i) THEN bytes[sourceStart(i) + b]
                        ELSE 0]
        xored(b) == Xor(Xor(Xor(shard(0)[b], shard(1)[b]), shard(2)[b]), shard(3)[b])
        parity(q) == [b \in 1..shardSize |->
                         IF q > 0 /\ b = 1 THEN Xor(xored(b), q % 256) ELSE xored(b)]
    IN  IF \E i \in 0..(EC_DATA - 1) : sourceStart(i) > Len(bytes)
        THEN [thrown |-> TRUE, checksums |-> <<>>]
        ELSE [thrown |-> FALSE,
              checksums |-> <<sha256(bytes)>>
                            \o [i \in 1..EC_DATA |-> sha256(shard(i - 1))]
                            \o [q \in 1..EC_PARITY |-> sha256(parity(q - 1))]]

\* what a checksum helper of the SDK does: it is absent, it throws, or it returns an
\* array of some length (of 32-byte digests, in any form toUint8Array accepts)
HelperAbsent == [kind |-> "absent", length |-> 0]
HelperThrows == [kind |-> "throws", length |-> 0]
HelperReturns(n) == [kind |-> "array", length |-> n]

\* computeExpectChecksums(bytes) when require of the SDK succeeds or not (sdk.loads)
\* and its two helpers behave as given. An exception of the first helper skips the
\* second; the manual fallback is outside the try.
computeExpectChecksums(bytes, sdk) ==
    LET fromSdk(helper) ==
            [thrown |-> FALSE, path |-> helper,
             checksums |-> [i \in 1..7 |-> SdkDigest(helper, i)]]
        manual == [path |-> "manual"] @@ manualChecksums(bytes)
    IN  IF ~sdk.loads THEN manual
        ELSE IF sdk.checksumObj.kind = "throws" THEN manual
        ELSE IF sdk.checksumObj.kind = "array" /\ sdk.checksumObj.length = 7
             THEN fromSdk("checksumObj")
        ELSE IF sdk.getCheckSums.kind = "throws" THEN manual
        ELSE IF sdk.getCheckSums.kind = "array" /\ sdk.getCheckSums.length = 7
             THEN fromSdk("getCheckSums")
        ELSE manual

-----------------------------------------------------------------------------
(* backend/oracle/agent.js *)

\* in a cycle of the agent the remote upload succeeds, or the SDK client is missing
CycleRemoteFailures == {0, 1}

RPC_LIST == <<"bsc-prebsc-1-s1", "bsc-prebsc-2-s1", "bsc-prebsc-1-s2", "bsc-drpc">>
RpcIds == 1..Len(RPC_LIST)

StartTime == 1700

\* which endpoints answer when getProvider probes them: all, all but the first, none
RpcStates ==
    { [k \in RpcIds |-> TRUE], [k \in RpcIds |-> k > 1], [k \in RpcIds |-> FALSE] }

AllRpcStates == [RpcIds -> BOOLEAN]

\* the environment may cause one more failure
MayFail(failed) == failed => faults < MaxFaults
Faults(failed) == IF failed THEN faults + 1 ELSE faults

\* the answers of the sources in a cycle of the agent: all four agree; the
\* documented scenario with one outlier; a single source answers; two that disagree
Timeout == [kind |-> "timeout", price |-> Null]
Json(p) == [kind |-> "json", price |-> p]
CycleResponses ==
    { <<Json(1400), Json(1400), Json(1400), Json(1400)>>,
      <<Json(1400), Json(1404), Json(1398), Json(2000)>>,
      <<Timeout, Json(1400), Timeout, Timeout>>,
      <<Json(1400), Timeout, Timeout, Json(2000)>> }

\* the --price arguments of a run of the agent: none, "200", and a text that is no number
CycleOverrides ==
    {NoOverride, [given |-> TRUE, text |-> <<"2", "0", "0">>], [given |-> TRUE, text |-> <<"x">>]}

\* mutant: the endpoint furthest down the list that answers is returned
FirstUp_Last(up, k) ==
    IF \E j \in RpcIds : up[j]
    THEN CHOOSE j \in RpcIds : up[j] /\ \A i \in RpcIds : up[i] => i <= j
    ELSE 0

\* getProvider: the endpoints are probed in list order and the first that answers
\* is returned; provider = 0 stands for the throw after the loop
RECURSIVE FirstUp(_, _)
FirstUp(up, k) ==
    IF k > Len(RPC_LIST) THEN 0 ELSE IF up[k] THEN k ELSE FirstUp(up, k + 1)
\* mutant: the first endpoint is returned when none has answered
getProvider_Default(up) ==
    LET p == FirstUp(up, 1)
    IN  [thrown |-> FALSE, provider |-> IF p = 0 THEN 1 ELSE p,
         probed |-> IF p = 0 THEN RpcIds ELSE 1..p]
getProvider(up) ==
    LET p == FirstUp(up, 1)
    IN  [thrown |-> p = 0, provider |-> p,
         probed |-> IF p = 0 THEN RpcIds ELSE 1..p]

\* retry(fn, attempts): after a failed call number i, give up when i === attempts
\* mutant: retry allows one invocation more
RetryGivesUp_Late(i, attempts) == i = attempts + 1
\* mutant: retry never rethrows
RetryGivesUp_Never(i, attempts) == FALSE
RetryGivesUp(i, attempts) == i = attempts

\* 1000 * Math.pow(2, i) milliseconds, in seconds
RECURSIVE Pow2(_)
Pow2(i) == IF i = 0 THEN 1 ELSE 2 * Pow2(i - 1)
BackoffSeconds(i) == Pow2(i)

\* mutant: the result of the local verification is not looked at
PassesLocalVerify_Always(valid) == TRUE
\* mutant: any answer of the verification counts as success
PassesLocalVerify_Truthy(valid) == valid # ""

\* if (!localOk) throw ...: TRUE when the cycle goes on
PassesLocalVerify(valid) == valid = "true"

\* s.ok ? `${s.name}:$${s.price.toFixed(2)}` : `${s.name}:fail`
SourceSummary(sources) ==
    [k \in 1..Len(sources) |->
        [name |-> sources[k].name,
         shown |-> IF sources[k].ok THEN sources[k].price ELSE Null]]

\* mutant: the second element is passed as the engine returned it
SubmitArgs_Unswapped(pd, ref) ==
    [price |-> pd.price,
     timestamp |-> pd.timestamp,
     commitment |-> pd.commitment,
     proof_a |-> <<pd.proof.pi_a[1], pd.proof.pi_a[2]>>,
     proof_b |-> << <<pd.proof.pi_b[1][1], pd.proof.pi_b[1][2]>>,
                    <<pd.proof.pi_b[2][1], pd.proof.pi_b[2][2]>> >>,
     proof_c |-> <<pd.proof.pi_c[1], pd.proof.pi_c[2]>>,
     greenfieldRef |-> ref]

\* the arguments of oracle.submitPriceWithProof built from proofData and gfResult
SubmitArgs(pd, ref) ==
    [price |-> pd.price,
     timestamp |-> pd.timestamp,
     commitment |-> pd.commitment,
     proof_a |-> <<pd.proof.pi_a[1], pd.proof.pi_a[2]>>,
     proof_b |-> << <<pd.proof.pi_b[1][2], pd.proof.pi_b[1][1]>>,
                    <<pd.proof.pi_b[2][2], pd.proof.pi_b[2][1]>> >>,
     proof_c |-> <<pd.proof.pi_c[1], pd.proof.pi_c[2]>>,
     greenfieldRef |-> ref]

NoValue == [present |-> FALSE]

Call(name, outcome) == [call |-> name, ok |-> outcome]

\* a call of verifyProof, with the arguments it was given
VerifyCall(valid, proof, publicSignals) ==
    [call |-> "verifyProof", ok |-> valid = "true", returned |-> valid,
     proof |-> proof, publicSignals |-> publicSignals]

-----------------------------------------------------------------------------
(* Specification SpecAgg: fetchAggregatedPrice as a function of the answers. *)

\* no call is in progress beside the run
NoHealthCheck == [pc |-> "off", log |-> <<>>]
\* no request has been made to the server
NoRequest == [child |-> "none", killed |-> FALSE, timer |-> "none", sent |-> <<>>]
ServerIdle == [up |-> TRUE, req |-> <<>>]
\* no contract is deployed
NoChain == [deployed |-> FALSE]
OthersIdle == health = NoHealthCheck /\ http = ServerIdle /\ chain = NoChain

\* the values of the agent's variables while no agent runs, and at its start
AgentIdle ==
    /\ pc = "off" /\ cycle = 0 /\ attempt = 0 /\ now = StartTime
    /\ provider = 0 /\ priceResult = NoResult /\ proofData = NoProofData
    /\ localOk = "none" /\ gfResult = NoValue /\ tx = NoValue /\ receipt = NoValue
    /\ trace = <<>> /\ nProofs = 0 /\ txLog = <<>>
    /\ localDir = <<>> /\ submissions = <<>> /\ ok = 0 /\ fail = 0 /\ faults = 0

AggInit ==
    /\ program = "off" /\ continuous = FALSE /\ cliPrice = NoOverride /\ useLegacy = FALSE
    /\ circuit = [wasm |-> TRUE, zkey |-> TRUE, vkey |-> "ok"]
    /\ AgentIdle /\ OthersIdle
    /\ aggPc = "idle"
    /\ overridePrice \in Overrides
    /\ responses \in [SourceIds -> IF overridePrice.given THEN OverrideRunResponses
                                                          ELSE RawResponses]
    /\ aggOut = NoResult
    /\ queried = {}
    /\ tampered = 0

\* one call of fetchAggregatedPrice(overridePrice)
AggCall ==
    /\ aggPc = "idle"
    /\ LET out == fetchAggregatedPrice(overridePrice, responses)
       IN  /\ aggOut' = out
           /\ queried' = out.queriedSources
           /\ aggPc' = IF out.thrown THEN "threw" ELSE "returned"
    /\ UNCHANGED <<responses, overridePrice, tampered>>
    /\ UNCHANGED <<agentVars, otherVars>>

\* One source is compromised: after a call in which all 4 sources answered and the
\* aggregation succeeded, source i answers x instead and the call is made again.
AggTamper ==
    /\ aggPc = "returned"
    /\ tampered = 0
    /\ ~overridePrice.given
    /\ \A j \in SourceIds : fetchOne(j, responses[j]).ok
    /\ \E i \in SourceIds, x \in Quotes :
        LET raw2 == [responses EXCEPT ![i] = [kind |-> "json", price |-> x]]
            out  == fetchAggregatedPrice(overridePrice, raw2)
        IN  /\ responses' = raw2
            /\ tampered' = i
            /\ aggOut' = out
            /\ queried' = out.queriedSources
            /\ aggPc' = IF out.thrown THEN "threw" ELSE "returned"
    /\ UNCHANGED overridePrice
    /\ UNCHANGED <<agentVars, otherVars>>

AggNext == AggCall \/ AggTamper

SpecAgg == AggInit /\ [][AggNext]_vars

-----------------------------------------------------------------------------
(* Specification Spec: a run of backend/oracle/agent.js, single or continuous. *)

Init ==
    /\ aggPc = "off" /\ responses = <<>> /\ overridePrice = NoOverride
    /\ aggOut = NoResult /\ queried = {} /\ tampered = 0
    /\ OthersIdle
    /\ \/ program = "agent" /\ continuous \in BOOLEAN /\ useLegacy = FALSE /\ pc = "rpc"
       \/ program = "zk" /\ continuous = FALSE /\ useLegacy \in BOOLEAN /\ pc = "fetch"
    /\ cliPrice \in CycleOverrides
    /\ circuit \in InstalledCircuits
    /\ cycle = 1 /\ attempt = 1 /\ now = StartTime
    /\ provider = 0 /\ priceResult = NoResult /\ proofData = NoProofData
    /\ localOk = "none" /\ gfResult = NoValue /\ tx = NoValue /\ receipt = NoValue
    /\ trace = <<>> /\ nProofs = 0 /\ txLog = <<>>
    /\ localDir = <<>> /\ submissions = <<>> /\ ok = 0 /\ fail = 0 /\ faults = 0

\* mutant: after the last attempt retry waits for a timer that is never set
RetryFailed_Waits(attempts) ==
    IF RetryGivesUp(attempt, attempts)
    THEN pc' = "waiting" /\ UNCHANGED <<attempt, now>>
    ELSE pc' = pc /\ attempt' = attempt + 1 /\ now' = now + BackoffSeconds(attempt)

\* A call made through retry(fn, attempts) has failed: retry rethrows after the last
\* attempt, and otherwise sleeps and calls again.
RetryFailed(attempts) ==
    IF RetryGivesUp(attempt, attempts)
    THEN pc' = "threw" /\ UNCHANGED <<attempt, now>>
    ELSE pc' = pc /\ attempt' = attempt + 1 /\ now' = now + BackoffSeconds(attempt)

\* a call of getProvider: which endpoints answered, which were probed, the result
GetProviderCall(up, r) ==
    [call |-> "getProvider", ok |-> ~r.thrown, up |-> up, probed |-> r.probed,
     provider |-> r.provider]

\* 1. const provider = await retry(getProvider, 3, "RPC")
\*    with the endpoints in one of the given states when getProvider is called
GetProviderFrom(states) ==
    /\ program = "agent" /\ pc = "rpc"
    /\ \E up \in states :
        LET r == getProvider(up)
        IN  /\ MayFail(r.thrown) /\ faults' = Faults(r.thrown)
            /\ trace' = Append(trace, GetProviderCall(up, r))
            /\ IF r.thrown
               THEN RetryFailed(3) /\ UNCHANGED provider
               ELSE provider' = r.provider /\ pc' = "aggregate" /\ attempt' = 1 /\ now' = now
    /\ UNCHANGED <<priceResult, proofData, localOk, gfResult, tx, receipt>>
    /\ UNCHANGED <<program, continuous, cliPrice, useLegacy, circuit, cycle, nProofs, txLog,
                   localDir, submissions, ok, fail>>
    /\ UNCHANGED <<aggVars, otherVars>>

GetProvider == GetProviderFrom(RpcStates)

\* what fetchAggregatedPrice(overridePrice) returns or throws in a cycle, for each
\* --price argument and each set of answers
CycleOutcomes ==
    [o \in CycleOverrides |-> [raw \in CycleResponses |-> fetchAggregatedPrice(o, raw)]]

\* 2. const priceResult = await retry(() => fetchAggregatedPrice(overridePrice), 3, ...)
Aggregate ==
    /\ program = "agent" /\ pc = "aggregate"
    /\ \E raw \in CycleResponses :
        LET out == CycleOutcomes[cliPrice][raw]
        IN  /\ MayFail(out.thrown) /\ faults' = Faults(out.thrown)
            /\ trace' = Append(trace, Call("fetchAggregatedPrice", ~out.thrown))
            /\ IF out.thrown
               THEN RetryFailed(3) /\ UNCHANGED priceResult
               ELSE priceResult' = out /\ pc' = "prove" /\ attempt' = 1 /\ now' = now
    /\ UNCHANGED <<provider, proofData, localOk, gfResult, tx, receipt>>
    /\ UNCHANGED <<program, continuous, cliPrice, useLegacy, circuit, cycle, nProofs, txLog,
                   localDir, submissions, ok, fail>>
    /\ UNCHANGED <<aggVars, otherVars>>

\* 3. const proofData = await retry(() => generateProof(priceResult.price), 2, "proof")
\*    proofData.sources = priceResult.sources?.map(...)
Prove ==
    /\ program = "agent" /\ pc = "prove"
    /\ \E salt \in Salts, engineOk \in BOOLEAN :
        LET pd == generateProof(priceResult.price, now, salt, engineOk, circuit, nProofs + 1)
        IN  /\ MayFail(~engineOk) /\ faults' = Faults(~engineOk)
            /\ trace' = Append(trace, Call("generateProof", ~pd.thrown))
            /\ IF pd.thrown
               THEN RetryFailed(2) /\ UNCHANGED <<proofData, nProofs>>
               ELSE /\ proofData' = [pd EXCEPT !.sources = SourceSummary(priceResult.sources)]
                    /\ nProofs' = nProofs + 1
                    /\ pc' = "verify" /\ attempt' = 1 /\ now' = now
    /\ UNCHANGED <<provider, priceResult, localOk, gfResult, tx, receipt>>
    /\ UNCHANGED <<program, continuous, cliPrice, useLegacy, circuit, cycle, txLog,
                   localDir, submissions, ok, fail>>
    /\ UNCHANGED <<aggVars, otherVars>>

\* 4. const localOk = await verifyProof(proofData.proof, proofData.publicSignals)
\*    if (!localOk) throw new Error("Local proof verification FAILED ...")
LocalVerify ==
    /\ program = "agent" /\ pc = "verify"
    /\ LET v == verifyProof(proofData.proof, proofData.publicSignals, circuit)
       IN  /\ localOk' = v
           /\ trace' = Append(trace, VerifyCall(v, proofData.proof, proofData.publicSignals))
           /\ pc' = IF v # "throws" /\ PassesLocalVerify(v) THEN "prearchive" ELSE "threw"
    /\ UNCHANGED <<provider, priceResult, proofData, gfResult, tx, receipt>>
    /\ UNCHANGED <<program, continuous, cliPrice, useLegacy, circuit, cycle, attempt, now, nProofs,
                   txLog, localDir, submissions, ok, fail>>
    /\ UNCHANGED faults
    /\ UNCHANGED <<aggVars, otherVars>>

\* 6. try { await ensureBucket(wallet);
\*          gfResult = await uploadProof(proofData, "pending-" + proofData.timestamp, wallet) }
\*    catch { gfResult = { greenfieldRef: keccak256(`veris-proof-${timestamp}`), onGreenfield: false } }
PreArchive ==
    /\ program = "agent" /\ pc = "prearchive"
    /\ \E diskOk \in BOOLEAN, failsAt \in CycleRemoteFailures :
        LET pending == [kind |-> "pending", timestamp |-> proofData.timestamp]
            up == uploadProof(proofData, pending, "wallet", localDir, diskOk, failsAt)
            remoteOk == failsAt = 0
        IN  /\ diskOk \/ remoteOk
            /\ MayFail(~diskOk \/ ~remoteOk) /\ faults' = Faults(~diskOk \/ ~remoteOk)
            /\ trace' = Append(trace, Call("uploadProof:pending", ~up.thrown))
            /\ localDir' = up.dir
            /\ gfResult' =
                 IF up.thrown
                 THEN [present |-> TRUE,
                       greenfieldRef |-> keccak256(<<"veris-proof-", proofData.timestamp>>),
                       onGreenfield |-> FALSE]
                 ELSE [present |-> TRUE, greenfieldRef |-> up.greenfieldRef,
                       onGreenfield |-> up.onGreenfield]
    /\ pc' = "submit" /\ attempt' = 1
    /\ UNCHANGED <<provider, priceResult, proofData, localOk, tx, receipt>>
    /\ UNCHANGED <<program, continuous, cliPrice, useLegacy, circuit, cycle, now, nProofs,
                   txLog, submissions, ok, fail>>
    /\ UNCHANGED <<aggVars, otherVars>>

\* 7. const tx = await retry(() => oracle.submitPriceWithProof(...), 3, "on-chain submit")
\*    A call either sends the transaction, fails on the network, or is rejected
\*    (the gas estimate reverts); retry treats every failure alike.
Submit ==
    /\ program = "agent" /\ pc = "submit"
    /\ \E outcome \in {"sent", "network", "revert"} :
        LET args == SubmitArgs(proofData, gfResult.greenfieldRef)
            hash == Len(txLog) + 1
        IN  /\ MayFail(outcome # "sent") /\ faults' = Faults(outcome # "sent")
            /\ txLog' = Append(txLog, [fn |-> "submitPriceWithProof", cycle |-> cycle,
                                       args |-> args, outcome |-> outcome])
            /\ trace' = Append(trace, Call("submitPriceWithProof", outcome = "sent"))
            /\ IF outcome = "sent"
               THEN /\ tx' = [present |-> TRUE, hash |-> [kind |-> "hash", hash |-> hash]]
                    /\ pc' = "confirm" /\ UNCHANGED <<attempt, now>>
               ELSE RetryFailed(3) /\ UNCHANGED tx
    /\ UNCHANGED <<provider, priceResult, proofData, localOk, gfResult, receipt>>
    /\ UNCHANGED <<program, continuous, cliPrice, useLegacy, circuit, cycle, nProofs,
                   localDir, submissions, ok, fail>>
    /\ UNCHANGED <<aggVars, otherVars>>

\*    const receipt = await tx.wait()
\* mutant: the second archive write is left out
Confirm_SkipsArchive ==
    /\ program = "agent" /\ pc = "confirm"
    /\ \E mined \in BOOLEAN :
        /\ MayFail(~mined) /\ faults' = Faults(~mined)
        /\ trace' = Append(trace, Call("tx.wait", mined))
        /\ IF mined
           THEN receipt' = [present |-> TRUE, blockNumber |-> tx.hash.hash] /\ pc' = "record"
           ELSE pc' = "threw" /\ UNCHANGED receipt
    /\ UNCHANGED <<provider, priceResult, proofData, localOk, gfResult, tx>>
    /\ UNCHANGED <<program, continuous, cliPrice, useLegacy, circuit, cycle, attempt, now, nProofs,
                   txLog, localDir, submissions, ok, fail>>
    /\ UNCHANGED <<aggVars, otherVars>>
\* mutant: a wait that fails is ignored
Confirm_IgnoresFailure ==
    /\ program = "agent" /\ pc = "confirm"
    /\ \E mined \in BOOLEAN :
        /\ MayFail(~mined) /\ faults' = Faults(~mined)
        /\ trace' = Append(trace, Call("tx.wait", mined))
        /\ IF mined
           THEN receipt' = [present |-> TRUE, blockNumber |-> tx.hash.hash]
           ELSE UNCHANGED receipt
        /\ pc' = "postarchive"
    /\ UNCHANGED <<provider, priceResult, proofData, localOk, gfResult, tx>>
    /\ UNCHANGED <<program, continuous, cliPrice, useLegacy, circuit, cycle, attempt, now, nProofs,
                   txLog, localDir, submissions, ok, fail>>
    /\ UNCHANGED <<aggVars, otherVars>>
Confirm ==
    /\ program = "agent" /\ pc = "confirm"
    /\ \E mined \in BOOLEAN :
        /\ MayFail(~mined) /\ faults' = Faults(~mined)
        /\ trace' = Append(trace, Call("tx.wait", mined))
        /\ IF mined
           THEN receipt' = [present |-> TRUE, blockNumber |-> tx.hash.hash] /\ pc' = "postarchive"
           ELSE pc' = "threw" /\ UNCHANGED receipt
    /\ UNCHANGED <<provider, priceResult, proofData, localOk, gfResult, tx>>
    /\ UNCHANGED <<program, continuous, cliPrice, useLegacy, circuit, cycle, attempt, now, nProofs,
                   txLog, localDir, submissions, ok, fail>>
    /\ UNCHANGED <<aggVars, otherVars>>

\* 8. try { await uploadProof(proofData, tx.hash, wallet) } catch { /* non-fatal */ }
PostArchive ==
    /\ program = "agent" /\ pc = "postarchive"
    /\ \E diskOk \in BOOLEAN, failsAt \in CycleRemoteFailures :
        LET up == uploadProof(proofData, tx.hash, "wallet", localDir, diskOk, failsAt)
            remoteOk == failsAt = 0
        IN  /\ diskOk \/ remoteOk
            /\ MayFail(~diskOk \/ ~remoteOk) /\ faults' = Faults(~diskOk \/ ~remoteOk)
            /\ trace' = Append(trace, Call("uploadProof:tx", ~up.thrown))
            /\ localDir' = up.dir
    /\ pc' = "record"
    /\ UNCHANGED <<provider, priceResult, proofData, localOk, gfResult, tx, receipt>>
    /\ UNCHANGED <<program, continuous, cliPrice, useLegacy, circuit, cycle, attempt, now, nProofs,
                   txLog, submissions, ok, fail>>
    /\ UNCHANGED <<aggVars, otherVars>>

\*    fs.writeFileSync(`submission-${proofData.timestamp}.json`, ...); return result
\*    (a write that fails throws out of submitOnce)
Record ==
    /\ program = "agent" /\ pc = "record"
    /\ LET result == [priceUSD |-> priceResult.price,
                      commitment |-> proofData.commitment,
                      txHash |-> tx.hash,
                      block |-> receipt.blockNumber,
                      zkVerified |-> TRUE,
                      greenfieldRef |-> gfResult.greenfieldRef,
                      onGreenfield |-> gfResult.onGreenfield,
                      sources |-> proofData.sources]
           name == proofData.timestamp
       IN  \E diskOk \in BOOLEAN :
              /\ MayFail(~diskOk) /\ faults' = Faults(~diskOk)
              /\ trace' = Append(trace, Call("writeSubmission", diskOk))
              /\ IF diskOk
                 THEN /\ submissions' = [n \in DOMAIN submissions \cup {name} |->
                                            IF n = name THEN result ELSE submissions[n]]
                      /\ pc' = "returned"
                 ELSE pc' = "threw" /\ UNCHANGED submissions
    /\ UNCHANGED <<provider, priceResult, proofData, localOk, gfResult, tx, receipt>>
    /\ UNCHANGED <<program, continuous, cliPrice, useLegacy, circuit, cycle, attempt, now, nProofs,
                   txLog, localDir, ok, fail>>
    /\ UNCHANGED <<aggVars, otherVars>>

\* runContinuous: try { await submitOnce(overridePrice); ok++ } catch (e) { fail++ }
\* mutant: an error of submitOnce ends the loop
CountCycle_StopsOnError ==
    /\ program = "agent" /\ continuous /\ pc = "returned"
    /\ ok' = ok + 1 /\ fail' = fail
    /\ pc' = "sleep"
    /\ UNCHANGED <<provider, priceResult, proofData, localOk, gfResult, tx, receipt>>
    /\ UNCHANGED <<program, continuous, cliPrice, useLegacy, circuit, cycle, attempt, now, trace,
                   nProofs, txLog, localDir, submissions>>
    /\ UNCHANGED faults
    /\ UNCHANGED <<aggVars, otherVars>>
\* mutant: every finished cycle is counted as a success
CountCycle_AlwaysOk ==
    /\ program = "agent" /\ continuous /\ pc \in {"returned", "threw"}
    /\ ok' = ok + 1 /\ fail' = fail
    /\ pc' = "sleep"
    /\ UNCHANGED <<provider, priceResult, proofData, localOk, gfResult, tx, receipt>>
    /\ UNCHANGED <<program, continuous, cliPrice, useLegacy, circuit, cycle, attempt, now, trace,
                   nProofs, txLog, localDir, submissions>>
    /\ UNCHANGED faults
    /\ UNCHANGED <<aggVars, otherVars>>
CountCycle ==
    /\ program = "agent" /\ continuous /\ pc \in {"returned", "threw"}
    /\ IF pc = "returned" THEN ok' = ok + 1 /\ fail' = fail
                          ELSE fail' = fail + 1 /\ ok' = ok
    /\ pc' = "sleep"
    /\ UNCHANGED <<provider, priceResult, proofData, localOk, gfResult, tx, receipt>>
    /\ UNCHANGED <<program, continuous, cliPrice, useLegacy, circuit, cycle, attempt, now, trace,
                   nProofs, txLog, localDir, submissions>>
    /\ UNCHANGED faults
    /\ UNCHANGED <<aggVars, otherVars>>

\* runContinuous: await new Promise(r => setTimeout(r, intervalMs)), then the next
\* iteration calls submitOnce again.  The clock, in whole seconds, moves on by
\* elapsed, which depends on intervalMs.
\* mutant: the next cycle is started by a timer, also while a confirmation is awaited
NextCycle_OnTimer ==
    /\ program = "agent" /\ continuous /\ pc \in {"sleep", "confirm"}
    /\ cycle < MaxCycles
    /\ \E elapsed \in {0, 1} : now' = now + elapsed
    /\ cycle' = cycle + 1
    /\ pc' = "rpc" /\ attempt' = 1
    /\ provider' = 0 /\ priceResult' = NoResult /\ proofData' = NoProofData
    /\ localOk' = "none" /\ gfResult' = NoValue /\ tx' = NoValue /\ receipt' = NoValue
    /\ trace' = <<>>
    /\ UNCHANGED <<program, continuous, cliPrice, useLegacy, circuit, nProofs, txLog, localDir,
                   submissions, ok, fail>>
    /\ UNCHANGED faults
    /\ UNCHANGED <<aggVars, otherVars>>
NextCycle ==
    /\ program = "agent" /\ continuous /\ pc = "sleep"
    /\ cycle < MaxCycles
    /\ \E elapsed \in {0, 1} : now' = now + elapsed
    /\ cycle' = cycle + 1
    /\ pc' = "rpc" /\ attempt' = 1
    /\ provider' = 0 /\ priceResult' = NoResult /\ proofData' = NoProofData
    /\ localOk' = "none" /\ gfResult' = NoValue /\ tx' = NoValue /\ receipt' = NoValue
    /\ trace' = <<>>
    /\ UNCHANGED <<program, continuous, cliPrice, useLegacy, circuit, nProofs, txLog, localDir,
                   submissions, ok, fail>>
    /\ UNCHANGED faults
    /\ UNCHANGED <<aggVars, otherVars>>

-----------------------------------------------------------------------------
(* A run of oracle-agent-zk.js: main, submitWithZKProof, submitLegacy.        *)

\* the answer of the Binance ticker to fetchBNBPrice
TickerResponses == {Json(1400), Timeout}

\* const priceUSD = await fetchBNBPrice(overridePrice); then main chooses
\* submitLegacy (--legacy, or the circuit's wasm is missing) or submitWithZKProof
ZkFetchPrice ==
    /\ program = "zk" /\ pc = "fetch"
    /\ \E answer \in TickerResponses :
        LET failed == ~cliPrice.given /\ answer.kind # "json"
            price  == IF cliPrice.given THEN parseFloat(cliPrice.text) ELSE answer.price
        IN  /\ MayFail(failed) /\ faults' = Faults(failed)
            /\ trace' = Append(trace, Call("fetchBNBPrice", ~failed))
            /\ IF failed
               THEN pc' = "threw" /\ UNCHANGED priceResult
               ELSE /\ priceResult' = [NoResult EXCEPT !.price = price]
                    /\ pc' = IF useLegacy \/ ~circuit.wasm THEN "legacy" ELSE "prove"
    /\ UNCHANGED <<provider, proofData, localOk, gfResult, tx, receipt>>
    /\ UNCHANGED <<program, continuous, cliPrice, useLegacy, circuit, cycle, attempt, now,
                   nProofs, txLog, localDir, submissions, ok, fail>>
    /\ UNCHANGED <<aggVars, otherVars>>

\* 1. const proofData = await generateProof(priceUSD)
ZkProve ==
    /\ program = "zk" /\ pc = "prove"
    /\ \E salt \in Salts, engineOk \in BOOLEAN :
        LET pd == generateProof(priceResult.price, now, salt, engineOk, circuit, nProofs + 1)
        IN  /\ MayFail(~engineOk) /\ faults' = Faults(~engineOk)
            /\ trace' = Append(trace, Call("generateProof", ~pd.thrown))
            /\ IF pd.thrown
               THEN pc' = "threw" /\ UNCHANGED <<proofData, nProofs>>
               ELSE proofData' = pd /\ nProofs' = nProofs + 1 /\ pc' = "verify"
    /\ UNCHANGED <<provider, priceResult, localOk, gfResult, tx, receipt>>
    /\ UNCHANGED <<program, continuous, cliPrice, useLegacy, circuit, cycle, attempt, now,
                   txLog, localDir, submissions, ok, fail>>
    /\ UNCHANGED <<aggVars, otherVars>>

\* 2. const valid = await verifyProof(proofData.proof, proofData.publicSignals)
\*    if (!valid) throw new Error("Local proof verification failed!")
\* 3. proofData.calldata has a, b and c whenever parseCalldata returned from its try
ZkVerify ==
    /\ program = "zk" /\ pc = "verify"
    /\ LET v == verifyProof(proofData.proof, proofData.publicSignals, circuit)
       IN  /\ localOk' = v
           /\ trace' = Append(trace, VerifyCall(v, proofData.proof, proofData.publicSignals))
           /\ pc' = IF v # "throws" /\ PassesLocalVerify(v) THEN "submit" ELSE "threw"
    /\ UNCHANGED <<provider, priceResult, proofData, gfResult, tx, receipt>>
    /\ UNCHANGED <<program, continuous, cliPrice, useLegacy, circuit, cycle, attempt, now,
                   nProofs, txLog, localDir, submissions, ok, fail>>
    /\ UNCHANGED faults
    /\ UNCHANGED <<aggVars, otherVars>>

\* 4. const greenfieldRef = keccak256(`veris-proof-${proofData.timestamp}`)
\* 5. const tx = await oracle.submitPriceWithProof(...)      (no retry)
ZkSubmit ==
    /\ program = "zk" /\ pc = "submit"
    /\ \E outcome \in {"sent", "network", "revert"} :
        LET greenfieldRef == keccak256(<<"veris-proof-", proofData.timestamp>>)
            args == SubmitArgs(proofData, greenfieldRef)
            hash == Len(txLog) + 1
        IN  /\ MayFail(outcome # "sent") /\ faults' = Faults(outcome # "sent")
            /\ gfResult' = [present |-> TRUE, greenfieldRef |-> greenfieldRef,
                            onGreenfield |-> FALSE]
            /\ txLog' = Append(txLog, [fn |-> "submitPriceWithProof", cycle |-> cycle,
                                       args |-> args, outcome |-> outcome])
            /\ trace' = Append(trace, Call("submitPriceWithProof", outcome = "sent"))
            /\ IF outcome = "sent"
               THEN /\ tx' = [present |-> TRUE, hash |-> [kind |-> "hash", hash |-> hash]]
                    /\ pc' = "confirm"
               ELSE pc' = "threw" /\ UNCHANGED tx
    /\ UNCHANGED <<provider, priceResult, proofData, localOk, receipt>>
    /\ UNCHANGED <<program, continuous, cliPrice, useLegacy, circuit, cycle, attempt, now,
                   nProofs, localDir, submissions, ok, fail>>
    /\ UNCHANGED <<aggVars, otherVars>>

\*    await tx.wait()
ZkWait ==
    /\ program = "zk" /\ pc = "confirm"
    /\ \E mined \in BOOLEAN :
        /\ MayFail(~mined) /\ faults' = Faults(~mined)
        /\ trace' = Append(trace, Call("tx.wait", mined))
        /\ IF mined
           THEN receipt' = [present |-> TRUE, blockNumber |-> tx.hash.hash] /\ pc' = "save"
           ELSE pc' = "threw" /\ UNCHANGED receipt
    /\ UNCHANGED <<provider, priceResult, proofData, localOk, gfResult, tx>>
    /\ UNCHANGED <<program, continuous, cliPrice, useLegacy, circuit, cycle, attempt, now,
                   nProofs, txLog, localDir, submissions, ok, fail>>
    /\ UNCHANGED <<aggVars, otherVars>>

\* 6. const gf = await saveToGreenfield(proofData, tx.hash); return {...}
ZkSave ==
    /\ program = "zk" /\ pc = "save"
    /\ \E diskOk \in BOOLEAN :
        LET saved == saveToGreenfield(proofData, tx.hash, localDir, diskOk)
        IN  /\ MayFail(~diskOk) /\ faults' = Faults(~diskOk)
            /\ trace' = Append(trace, Call("saveToGreenfield", ~saved.thrown))
            /\ localDir' = saved.dir
            /\ pc' = IF saved.thrown THEN "threw" ELSE "returned"
    /\ UNCHANGED <<provider, priceResult, proofData, localOk, gfResult, tx, receipt>>
    /\ UNCHANGED <<program, continuous, cliPrice, useLegacy, circuit, cycle, attempt, now,
                   nProofs, txLog, submissions, ok, fail>>
    /\ UNCHANGED <<aggVars, otherVars>>

\* submitLegacy(priceUSD): const tx = await oracle.submitPrice(price8dec, timestamp, commitment)
LegacySubmit ==
    /\ program = "zk" /\ pc = "legacy"
    /\ \E salt \in Salts, outcome \in {"sent", "network", "revert"} :
        LET priceUSD == priceResult.price
            failed   == ~isFinite(priceUSD) \/ outcome # "sent"
            price8dec == ToFixedPoint(priceUSD)
            commitment == keccak256(<<price8dec, now, salt>>)
            hash == Len(txLog) + 1
        IN  /\ MayFail(isFinite(priceUSD) /\ outcome # "sent")
            /\ faults' = Faults(isFinite(priceUSD) /\ outcome # "sent")
            /\ IF ~isFinite(priceUSD)
               THEN UNCHANGED <<txLog, trace>>
               ELSE /\ txLog' = Append(txLog, [fn |-> "submitPrice", cycle |-> cycle,
                                               args |-> [price |-> price8dec, timestamp |-> now,
                                                         commitment |-> commitment],
                                               outcome |-> outcome])
                    /\ trace' = Append(trace, Call("submitPrice", outcome = "sent"))
            /\ IF failed
               THEN pc' = "threw" /\ UNCHANGED tx
               ELSE /\ tx' = [present |-> TRUE, hash |-> [kind |-> "hash", hash |-> hash]]
                    /\ pc' = "legacyconfirm"
    /\ UNCHANGED <<provider, priceResult, proofData, localOk, gfResult, receipt>>
    /\ UNCHANGED <<program, continuous, cliPrice, useLegacy, circuit, cycle, attempt, now,
                   nProofs, localDir, submissions, ok, fail>>
    /\ UNCHANGED <<aggVars, otherVars>>

\* submitLegacy: await tx.wait(); return { txHash, commitment, zkVerified: false }
LegacyWait ==
    /\ program = "zk" /\ pc = "legacyconfirm"
    /\ \E mined \in BOOLEAN :
        /\ MayFail(~mined) /\ faults' = Faults(~mined)
        /\ trace' = Append(trace, Call("tx.wait", mined))
        /\ IF mined
           THEN receipt' = [present |-> TRUE, blockNumber |-> tx.hash.hash] /\ pc' = "returned"
           ELSE pc' = "threw" /\ UNCHANGED receipt
    /\ UNCHANGED <<provider, priceResult, proofData, localOk, gfResult, tx>>
    /\ UNCHANGED <<program, continuous, cliPrice, useLegacy, circuit, cycle, attempt, now,
                   nProofs, txLog, localDir, submissions, ok, fail>>
    /\ UNCHANGED <<aggVars, otherVars>>

ZkMain ==
    \/ ZkFetchPrice \/ ZkProve \/ ZkVerify \/ ZkSubmit \/ ZkWait \/ ZkSave
    \/ LegacySubmit \/ LegacyWait

SubmitOnce ==
    \/ GetProvider \/ Aggregate \/ Prove \/ LocalVerify \/ PreArchive
    \/ Submit \/ Confirm \/ PostArchive \/ Record

Next == SubmitOnce \/ CountCycle \/ NextCycle \/ ZkMain

Spec == Init /\ [][Next]_vars

\* Specification SpecRpc: step 1 of submitOnce with every combination of endpoints
\* that answer and endpoints that do not.
ProbeEndpoints == GetProviderFrom(AllRpcStates)

SpecRpc == Init /\ [][ProbeEndpoints]_vars

-----------------------------------------------------------------------------
(* Properties of fetchAggregatedPrice, stated on the answers themselves. *)

\* the sources whose answer is a finite positive number
Usable(r) == r.kind = "json" /\ r.price # NaN /\ r.price > 0
OkIds == {i \in SourceIds : Usable(responses[i])}
Quote(i) == responses[i].price

\* the deviation of a from m, rounded half up to whole basis points, exceeds 200:
\* |a - m| / m * 10000 >= 200.5
ExceedsTolerance(a, m) == 20000 * Abs(a - m) >= 401 * m

\* the k-th smallest quote among the sources A, and their median
KthSmallest(A, k) ==
    CHOOSE v \in {Quote(i) : i \in A} :
        /\ Cardinality({i \in A : Quote(i) < v}) < k
        /\ k <= Cardinality({i \in A : Quote(i) <= v})
MedianOfIds(A) ==
    LET n == Cardinality(A)
    IN  IF n % 2 = 1 THEN KthSmallest(A, n \div 2 + 1)
        ELSE (KthSmallest(A, n \div 2) + KthSmallest(A, n \div 2 + 1)) \div 2

\* the usable sources within tolerance of the median of all usable sources
AgreeWithMedian ==
    IF OkIds = {} THEN {}
    ELSE {i \in OkIds : ~ExceedsTolerance(Quote(i), MedianOfIds(OkIds))}

\* Two answers are within tolerance of each other.  devBps divides by its second
\* argument, so the deviation of a from b and that of b from a differ slightly:
\* Strictly asks for both, Loosely for one of them.
AgreeStrictly(i, j) ==
    /\ ~ExceedsTolerance(Quote(i), Quote(j))
    /\ ~ExceedsTolerance(Quote(j), Quote(i))
AgreeLoosely(i, j) ==
    \/ ~ExceedsTolerance(Quote(i), Quote(j))
    \/ ~ExceedsTolerance(Quote(j), Quote(i))
\* sets of at least 2 usable sources that are within tolerance of each other
StrictlyAgreeingSets ==
    {A \in SUBSET OkIds : Cardinality(A) >= 2 /\ \A i, j \in A : AgreeStrictly(i, j)}
LooselyAgreeingSets ==
    {A \in SUBSET OkIds : Cardinality(A) >= 2 /\ \A i, j \in A : AgreeLoosely(i, j)}

PlainCallDone == aggPc # "idle" /\ ~overridePrice.given

\* C4 as stated: whenever at least 2 answers are within 200 bps of each other, the
\* call returns the median of a set of mutually agreeing answers and validCount
\* is the size of that set.  (Read in the way easiest to satisfy: it is asked only
\* when some answers agree in both directions, and any set agreeing in one will do.)
C4_Original ==
    (PlainCallDone /\ StrictlyAgreeingSets # {}) =>
        /\ aggPc = "returned"
        /\ \E A \in LooselyAgreeingSets :
              aggOut.price = MedianOfIds(A) /\ aggOut.validCount = Cardinality(A)

\* C4 (amended): whenever at least 2 usable answers are within 200 bps (rounded) of
\* the median of all usable answers, the call returns the median of those answers
\* and validCount is their number.
C4_MedianOfSourcesNearMedian ==
    (PlainCallDone /\ Cardinality(AgreeWithMedian) >= 2) =>
        /\ aggPc = "returned"
        /\ aggOut.price = MedianOfIds(AgreeWithMedian)
        /\ aggOut.validCount = Cardinality(AgreeWithMedian)

\* a call that returned although one answer was dropped as an outlier and another
\* lies exactly 200 bps from the median
C4_Witness ==
    /\ PlainCallDone /\ aggPc = "returned" /\ tampered = 0
    /\ Cardinality(AgreeWithMedian) >= 2
    /\ AgreeWithMedian # OkIds
    /\ \E i \in AgreeWithMedian : 50 * Abs(Quote(i) - MedianOfIds(OkIds)) = MedianOfIds(OkIds)

\* C5 as stated: when no 2 answers are within 200 bps of each other (in either
\* direction), the call throws.
C5_Original == (PlainCallDone /\ LooselyAgreeingSets = {}) => aggPc = "threw"

\* C5 (amended): when fewer than MIN_SOURCES usable answers are within 200 bps
\* (rounded) of the median of the usable answers, the call throws.
C5_ThrowsWithoutQuorumNearMedian ==
    (PlainCallDone /\ Cardinality(AgreeWithMedian) < 2) => aggPc = "threw"

\* at least 2 sources answered, and all but at most one are outliers: the call threw
C5_Witness ==
    /\ PlainCallDone /\ aggPc = "threw"
    /\ Cardinality(OkIds) >= 2
    /\ Cardinality(AgreeWithMedian) < 2

\* C7: with all 4 sources answering, once the answer of one source has been
\* replaced by another positive value, a consensus price that is returned lies
\* between the smallest and the largest answer of the other three sources.
OtherQuotes == {Quote(j) : j \in SourceIds \ {tampered}}
C7_SingleSourceCannotMovePrice ==
    (tampered # 0 /\ aggPc = "returned") =>
        /\ \E lo \in OtherQuotes : lo <= aggOut.price
        /\ \E hi \in OtherQuotes : aggOut.price <= hi

\* the replaced answer lies above every other answer and still passes the outlier
\* filter, so it takes part in the consensus that is returned
C7_Witness ==
    /\ tampered # 0 /\ aggPc = "returned"
    /\ \A q \in OtherQuotes : q < Quote(tampered)
    /\ tampered \in AgreeWithMedian
    /\ aggOut.validCount = 4

\* C8: without override the call uses only the sources recorded ok = true (an
\* unusable answer is recorded ok = false), marks as outliers exactly the usable
\* answers whose rounded deviation from the median of the usable answers exceeds
\* 200 bps and, when it returns, returns the median of the others and their
\* number; the answers 350.00, 351.00, 349.50, 500.00 give validCount = 3 with
\* 500.00 as the only outlier.
NamesOf(rs) == {rs[k].name : k \in 1..Len(rs)}
C8_Scenario ==
    [i \in SourceIds |-> [kind |-> "json", price |-> <<1400, 1404, 1398, 2000>>[i]]]
C8_OutliersAgainstFirstMedian ==
    PlainCallDone =>
        /\ Len(aggOut.sources) = 4
        /\ \A i \in SourceIds :
              /\ aggOut.sources[i].name = SOURCES[i]
              /\ aggOut.sources[i].ok = Usable(responses[i])
        /\ Cardinality(OkIds) >= 2 =>
              /\ NamesOf(aggOut.outliers) = {SOURCES[i] : i \in OkIds \ AgreeWithMedian}
              /\ Len(aggOut.outliers) = Cardinality(OkIds \ AgreeWithMedian)
        /\ aggPc = "returned" =>
              /\ NamesOf(aggOut.validSources) = {SOURCES[i] : i \in AgreeWithMedian}
              /\ aggOut.validCount = Cardinality(AgreeWithMedian)
              /\ aggOut.price = MedianOfIds(AgreeWithMedian)
        /\ responses = C8_Scenario =>
              /\ aggPc = "returned"
              /\ aggOut.validCount = 3
              /\ aggOut.price = 1400
              /\ aggOut.outliers = <<[name |-> "CoinGecko", price |-> 2000, ok |-> TRUE]>>

\* the documented scenario has been run
C8_Witness == PlainCallDone /\ tampered = 0 /\ responses = C8_Scenario /\ aggPc = "returned"

\* C9 as stated: every result that is returned has validCount >= MIN_SOURCES.
C9_Original == aggPc = "returned" => aggOut.validCount >= 2

\* C9 (amended): every result returned by a call without override has
\* validCount >= MIN_SOURCES (2); the call throws when fewer than 2 sources
\* succeed and when fewer than 2 values remain after outlier filtering.  (With an
\* override the call returns validCount = 1.)
C9_QuorumUnlessOverride ==
    PlainCallDone =>
        /\ aggPc = "returned" => aggOut.validCount >= 2 /\ aggOut.price > 0
        /\ Cardinality(OkIds) < 2 => aggPc = "threw"
        /\ Cardinality(AgreeWithMedian) < 2 => aggPc = "threw"
        /\ aggPc = "threw" => aggOut.price = Null

\* exactly one source answered and the call threw
C9_Witness == PlainCallDone /\ aggPc = "threw" /\ Cardinality(OkIds) = 1

\* C10: with an override the call queries no source and returns the parsed
\* override as price, the single source entry OVERRIDE, validCount = 1, spread = 0
\* and override = true; "200" gives 200.00 (800 ticks).
LeadingDigits(s) ==
    IF \A k \in 1..Len(s) : s[k] \in Digits THEN Len(s)
    ELSE (CHOOSE k \in 1..Len(s) : s[k] \notin Digits /\ \A j \in 1..(k - 1) : s[j] \in Digits) - 1
RECURSIVE PowerOfTen(_)
PowerOfTen(n) == IF n = 0 THEN 1 ELSE 10 * PowerOfTen(n - 1)
RECURSIVE PositionalValue(_, _, _)
PositionalValue(s, k, n) ==
    IF k > n THEN 0 ELSE DigitValue(s[k]) * PowerOfTen(n - k) + PositionalValue(s, k + 1, n)
ParsedOverride(s) ==
    IF LeadingDigits(s) = 0 THEN NaN ELSE 4 * PositionalValue(s, 1, LeadingDigits(s))
C10_OverrideBypassesAggregation ==
    (aggPc # "idle" /\ overridePrice.given) =>
        /\ aggPc = "returned"
        /\ queried = {}
        /\ aggOut.price = ParsedOverride(overridePrice.text)
        /\ aggOut.sources =
              <<[name |-> "OVERRIDE", price |-> ParsedOverride(overridePrice.text), ok |-> TRUE]>>
        /\ aggOut.validCount = 1
        /\ aggOut.spread = 0
        /\ aggOut.override = TRUE
        /\ overridePrice.text = <<"2", "0", "0">> => aggOut.price = 800

\* the call has been made with the override "200" while the sources had quotes
C10_Witness ==
    /\ aggPc = "returned" /\ overridePrice.given
    /\ overridePrice.text = <<"2", "0", "0">>
    /\ \E i \in SourceIds : Usable(responses[i])


-----------------------------------------------------------------------------
(* Properties of a cycle: submitOnce of agent.js, submitWithZKProof of         *)
(* oracle-agent-zk.js.                                                         *)

\* positions in the current cycle's trace of the calls of a function
CallsOf(name) == {k \in DOMAIN trace : trace[k].call = name}
FailedCallsOf(name) == {k \in CallsOf(name) : ~trace[k].ok}

\* the entries of txLog made in the current cycle
SentThisCycle == {k \in DOMAIN txLog : txLog[k].cycle = cycle}

\* the cycle has failed: submitOnce threw (and runContinuous may have counted it)
CycleFailed ==
    \/ pc = "threw"
    \/ pc = "sleep" /\ \A k \in CallsOf("writeSubmission") : ~trace[k].ok

\* the components of a submission that come from a proof and its public signals
ComponentsOf(proof, publicSignals) ==
    [price |-> publicSignals[2],
     timestamp |-> publicSignals[3],
     commitment |-> ToHex32(publicSignals[1]),
     proof_a |-> <<proof.pi_a[1], proof.pi_a[2]>>,
     proof_b |-> << <<proof.pi_b[1][2], proof.pi_b[1][1]>>,
                    <<proof.pi_b[2][2], proof.pi_b[2][1]>> >>,
     proof_c |-> <<proof.pi_c[1], proof.pi_c[2]>>]

WithoutRef(args) == [f \in DOMAIN args \ {"greenfieldRef"} |-> args[f]]

\* C1: every invocation of submitPriceWithProof in a cycle comes after a call of
\* verifyProof in the same cycle that returned true, made on the very proof and
\* public signals whose components are the invocation's arguments; and when
\* verifyProof returned false the cycle has failed and no transaction was sent in it.
C1_SubmitOnlyVerifiedProof ==
    /\ \A k \in SentThisCycle :
         txLog[k].fn = "submitPriceWithProof" =>
           \E v \in CallsOf("verifyProof") :
              /\ trace[v].returned = "true"
              /\ \E c \in CallsOf("submitPriceWithProof") : v < c
              /\ \A c \in CallsOf("submitPriceWithProof") : v < c
              /\ WithoutRef(txLog[k].args)
                   = ComponentsOf(trace[v].proof, trace[v].publicSignals)
    /\ localOk = "false" => CycleFailed /\ SentThisCycle = {}

C1_Witness ==
    /\ pc = "confirm" /\ cycle = 2
    /\ \E k \in SentThisCycle : txLog[k].outcome = "sent" /\ txLog[k].fn = "submitPriceWithProof"
    /\ \E k \in SentThisCycle : txLog[k].outcome = "revert"

\* C2 as written: a proof that generateProof has returned is one the engine's
\* verify operation accepts with the verification key on disk.
C2_Original ==
    proofData.present =>
        verifyProof(proofData.proof, proofData.publicSignals, circuit) = "true"

\* C2: generateProof does not run the engine's verify operation: what it returns
\* does not depend on the verification key.  Its callers submitOnce and
\* submitWithZKProof call verifyProof on the returned proof and public signals as
\* the next thing they do, and when that call does not return true nothing is
\* called after it and the cycle has failed.
C2_CallersVerifyWhatGenerateProofReturns ==
    /\ proofData.present =>
         \A vkey \in {"ok", "stale", "absent"} :
            [proofData EXCEPT !.sources = <<>>]
              = generateProof(proofData.priceUSD, proofData.timestamp, proofData.salt, TRUE,
                              [circuit EXCEPT !.vkey = vkey], nProofs)
    /\ \A g \in CallsOf("generateProof") :
         trace[g].ok =>
           IF g = Len(trace) THEN pc = "verify"
           ELSE /\ trace[g + 1].call = "verifyProof"
                /\ trace[g + 1].proof = proofData.proof
                /\ trace[g + 1].publicSignals = proofData.publicSignals
    /\ \A v \in CallsOf("verifyProof") :
         trace[v].returned # "true" => v = Len(trace) /\ CycleFailed

C2_Witness ==
    /\ proofData.present /\ circuit.vkey = "stale"
    /\ localOk = "false" /\ pc = "threw"
    /\ FailedCallsOf("generateProof") # {}

\* C3: when the local verify returned false in a cycle of submitOnce, submitOnce has
\* thrown, no transaction was sent, uploadProof was not called with a transaction
\* hash and no submission record was written in that cycle.
C3_NoArchiveAfterFailedVerify ==
    (program = "agent" /\ localOk = "false") =>
        /\ CycleFailed
        /\ CallsOf("uploadProof:tx") = {}
        /\ CallsOf("writeSubmission") = {}
        /\ tx.present = FALSE
        /\ \A n \in DOMAIN localDir : localDir[n].zkProof.proof # proofData.proof

C3_Witness ==
    /\ program = "agent" /\ localOk = "false" /\ proofData.present
    /\ cycle = 2 /\ pc = "sleep" /\ fail = 2

\* C6: when fetchAggregatedPrice has failed in all three attempts of a cycle, the
\* cycle has failed and generateProof, uploadProof and submitPriceWithProof were not
\* invoked in it: there is no proof, no archive entry and no transaction of the cycle.
C6_NoProofWithoutPrice ==
    /\ Cardinality(CallsOf("fetchAggregatedPrice")) <= 3
    /\ Cardinality(FailedCallsOf("fetchAggregatedPrice")) = 3 =>
        /\ CycleFailed
        /\ CallsOf("generateProof") = {}
        /\ CallsOf("uploadProof:pending") = {} /\ CallsOf("uploadProof:tx") = {}
        /\ CallsOf("submitPriceWithProof") = {}
        /\ ~proofData.present /\ ~gfResult.present /\ ~tx.present
        /\ SentThisCycle = {}

C6_Witness ==
    /\ Cardinality(FailedCallsOf("fetchAggregatedPrice")) = 3
    /\ pc = "sleep" /\ fail = 1

-----------------------------------------------------------------------------
(* Properties of retry and of the on-chain submit.                            *)

\* C11 as written: a submitPriceWithProof invocation that is rejected (reverts) is
\* the only invocation of the cycle, and the cycle has failed.
C11_Original ==
    \A k \in SentThisCycle :
        txLog[k].outcome = "revert" => Cardinality(SentThisCycle) = 1 /\ CycleFailed

\* the functions submitOnce calls through retry, with the number of attempts
Retried ==
    { <<"getProvider", 3>>, <<"fetchAggregatedPrice", 3>>, <<"generateProof", 2>>,
      <<"submitPriceWithProof", 3>> }

\* the last call made in the cycle is a failed call of this function
EndsWithFailed(name) ==
    Len(trace) > 0 /\ trace[Len(trace)].call = name /\ ~trace[Len(trace)].ok

\* C12: retry(fn, n) invokes fn at most n times; after an invocation has succeeded
\* fn is not invoked again; retry rethrows exactly when n invocations have failed.
\* So at most 3 submitPriceWithProof transactions are sent in a cycle and none is
\* sent after one was accepted.
C12_RetryIsBounded ==
    /\ \A r \in Retried :
         /\ Cardinality(CallsOf(r[1])) <= r[2]
         /\ \A k \in CallsOf(r[1]) : trace[k].ok => \A j \in CallsOf(r[1]) : j <= k
         /\ Cardinality(FailedCallsOf(r[1])) = r[2] => CycleFailed /\ EndsWithFailed(r[1])
         /\ (program = "agent" /\ pc = "threw" /\ EndsWithFailed(r[1]))
               => Cardinality(FailedCallsOf(r[1])) = r[2]
    /\ Cardinality(SentThisCycle) <= 3
    /\ \A k \in SentThisCycle :
         txLog[k].outcome = "sent" => \A j \in SentThisCycle : j <= k

C12_Witness ==
    /\ program = "agent" /\ pc = "confirm"
    /\ Cardinality(SentThisCycle) = 3
    /\ Cardinality(FailedCallsOf("submitPriceWithProof")) = 2

-----------------------------------------------------------------------------
(* Properties of getProvider.                                                  *)

C14_FirstAnsweringEndpoint ==
    \A k \in CallsOf("getProvider") :
        LET e == trace[k]
        IN  IF e.ok
            THEN /\ e.provider \in RpcIds
                 /\ e.up[e.provider]
                 /\ \A j \in 1..(e.provider - 1) : ~e.up[j]
                 /\ e.probed = 1..e.provider
                 /\ k = Len(trace) /\ provider = e.provider
            ELSE /\ \A j \in RpcIds : ~e.up[j]
                 /\ e.probed = RpcIds

C14_Witness ==
    /\ Len(trace) = 2 /\ ~trace[1].ok
    /\ trace[2].ok /\ trace[2].provider = 2 /\ trace[2].up[4] /\ ~trace[2].up[3]
    /\ provider = 2 /\ pc = "aggregate"

-----------------------------------------------------------------------------
(* Properties of the order of the steps of submitOnce and of runContinuous.    *)

\* the calls of submitOnce after the provider is found, in the order of the code
Steps ==
    <<"fetchAggregatedPrice", "generateProof", "verifyProof", "uploadProof:pending",
      "submitPriceWithProof", "tx.wait", "uploadProof:tx", "writeSubmission">>

\* the steps whose failure submitOnce catches and goes on
Tolerated == {"uploadProof:pending", "uploadProof:tx"}

\* C15: in a cycle of submitOnce the calls are made in the order aggregation, proof
\* generation, local verification, pre-submission archive, on-chain submit,
\* confirmation, post-submission archive, submission record: every call of a step
\* comes after every call of the steps before it, a step is called only after the
\* step before it has finished (successfully, or either way for the archive writes),
\* a cycle that returns has made them all, and the post-submission archive entry
\* carries the hash of the cycle's transaction.
C15_StepsInOrder ==
    program = "agent" =>
      /\ \A i \in DOMAIN Steps, j \in DOMAIN Steps :
            i < j => \A a \in CallsOf(Steps[i]), b \in CallsOf(Steps[j]) : a < b
      /\ \A j \in 2..Len(Steps) :
            CallsOf(Steps[j]) # {} =>
               \E a \in CallsOf(Steps[j - 1]) : trace[a].ok \/ Steps[j - 1] \in Tolerated
      /\ pc = "returned" => \A j \in DOMAIN Steps : CallsOf(Steps[j]) # {}
      /\ \A k \in CallsOf("uploadProof:tx") :
            trace[k].ok =>
               LET name == ObjectName(proofData.timestamp, tx.hash)
               IN  /\ tx.present /\ receipt.present
                   /\ name \in DOMAIN localDir
                   /\ localDir[name].onChain.txHash = tx.hash
                   /\ localDir[name].zkProof.proof = proofData.proof

C15_Witness ==
    /\ program = "agent" /\ pc = "returned" /\ cycle = 2
    /\ \A j \in DOMAIN Steps : \E k \in CallsOf(Steps[j]) : trace[k].ok
    /\ FailedCallsOf("submitPriceWithProof") # {}

\* the call a step has just made, if it made one
Called(name) ==
    /\ Len(trace') = Len(trace) + 1
    /\ trace'[Len(trace')].call = name

\* C16: in a run of agent.js the post-submission archive write, the submission
\* record, the return of submitOnce and the increment of ok happen only in a cycle
\* whose tx.wait() has returned the receipt; once submitOnce has thrown, as it does
\* when the send or the wait fails, none of them happens in that cycle.
C16_SuccessOnlyAfterReceipt ==
    [][program = "agent" =>
        /\ (Called("uploadProof:tx") \/ Called("writeSubmission")
              \/ submissions' # submissions
              \/ (pc' = "returned" /\ pc # "returned")
              \/ ok' # ok)
           => /\ receipt.present /\ tx.present
              /\ \E w \in CallsOf("tx.wait") : trace[w].ok
        /\ (Called("submitPriceWithProof") \/ Called("tx.wait"))
              /\ ~trace'[Len(trace')].ok /\ pc' # pc
           => pc' = "threw" /\ ~receipt'.present
        /\ pc = "threw"
           => /\ pc' \in {"threw", "sleep"}
              /\ ok' = ok /\ submissions' = submissions /\ localDir' = localDir
              /\ trace' = trace
    ]_vars

C16_Witness ==
    /\ program = "agent" /\ continuous /\ pc = "sleep" /\ cycle = 1
    /\ EndsWithFailed("tx.wait") /\ tx.present /\ ~receipt.present
    /\ ok = 0 /\ fail = 1 /\ submissions = <<>>

Finished(at, n) == IF at = "sleep" THEN n ELSE n - 1

\* C19: in runContinuous a step changes the counters only when a cycle has finished,
\* and then it adds one to ok when submitOnce returned and one to fail when it
\* threw; neither counter decreases and ok + fail is the number of cycles finished.
C19_CountersCountCycles ==
    [][(program = "agent" /\ continuous) =>
        /\ ok' >= ok /\ fail' >= fail
        /\ ok' + fail' = Finished(pc', cycle')
        /\ <<ok', fail'>> # <<ok, fail>> =>
              /\ pc \in {"returned", "threw"} /\ pc' = "sleep"
              /\ pc = "returned" => ok' = ok + 1 /\ fail' = fail
              /\ pc = "threw" => fail' = fail + 1 /\ ok' = ok
        /\ (pc \in {"returned", "threw"} /\ pc' # pc) => <<ok', fail'>> # <<ok, fail>>
    ]_vars

C19_Witness ==
    /\ program = "agent" /\ continuous
    /\ ok = 1 /\ fail = 1 /\ pc = "sleep" /\ cycle = 2

\* C20 as written: when the compiled circuit or the proving key is missing,
\* generateProof is invoked once in the cycle.
C20_Original ==
    (program = "agent" /\ ~checkCircuitFiles(circuit)) =>
        Cardinality(CallsOf("generateProof")) <= 1

\* C21 as written: while the compiled circuit (price_commitment.wasm) is absent no
\* entry point calls submitPrice or submitPriceWithProof, and a run that has ended
\* has ended with an error.
C21_Original ==
    ~circuit.wasm =>
        /\ txLog = <<>>
        /\ pc # "returned"

-----------------------------------------------------------------------------
(* Specification SpecGf: the archive client called on its own, as the agent,   *)
(* GET /greenfield/proofs of server.js and run-tests.js call it.               *)

\* calls of uploadProof and listProofs in a run
MaxStoreCalls == 3
\* seconds that pass in a run
MaxStoreTicks == 1
\* the largest limit listProofs is called with
MaxLimit == 2
\* transaction hashes (their first 8 digits)
MaxTxHash == 1

\* the proof data archived at time t
ProofDataAt(t) ==
    generateProof(1400, t, 0, TRUE, [wasm |-> TRUE, zkey |-> TRUE, vkey |-> "ok"], 1)

\* the txHash arguments uploadProof is called with at time t: "pending-<timestamp>"
\* before the submission, the transaction hash after it
StoreTxHashes(t) ==
    {[kind |-> "pending", timestamp |-> t]}
        \cup {[kind |-> "hash", hash |-> h] : h \in 1..MaxTxHash}

\* the calls of uploadProof in the log tr that returned
Uploads(tr) == {k \in 1..Len(tr) : tr[k].call = "uploadProof" /\ tr[k].ok}

\* the objects in the bucket: those whose remote upload succeeded
Bucket(tr) == {tr[k].name : k \in {u \in Uploads(tr) : tr[u].onGreenfield}}

\* a library function is called on its own: no agent runs, the store is empty
LibraryInit ==
    /\ aggPc = "off" /\ responses = <<>> /\ overridePrice = NoOverride
    /\ aggOut = NoResult /\ queried = {} /\ tampered = 0
    /\ OthersIdle
    /\ continuous = FALSE /\ cliPrice = NoOverride /\ useLegacy = FALSE
    /\ circuit = [wasm |-> TRUE, zkey |-> TRUE, vkey |-> "ok"]
    /\ pc = "ready" /\ cycle = 0 /\ attempt = 0 /\ now = StartTime
    /\ provider = 0 /\ priceResult = NoResult /\ proofData = NoProofData
    /\ localOk = "none" /\ gfResult = NoValue /\ tx = NoValue /\ receipt = NoValue
    /\ trace = <<>> /\ nProofs = 0 /\ txLog = <<>>
    /\ localDir = <<>> /\ submissions = <<>> /\ ok = 0 /\ fail = 0 /\ faults = 0

GfInit == program = "store" /\ LibraryInit

\* what a call changes nothing of
StoreUnchanged ==
    /\ UNCHANGED <<program, continuous, cliPrice, useLegacy, circuit, pc, cycle, attempt>>
    /\ UNCHANGED <<provider, priceResult, proofData, localOk, tx, receipt>>
    /\ UNCHANGED <<nProofs, txLog, submissions, ok, fail, faults>>
    /\ UNCHANGED <<aggVars, otherVars>>

\* a call uploadProof(proofData, txHash, wallet)
GfUpload ==
    /\ program = "store" /\ pc = "ready" /\ Len(trace) < MaxStoreCalls
    /\ \E txHash \in StoreTxHashes(now), diskOk \in BOOLEAN, failsAt \in RemoteFailures :
        LET up == uploadProof(ProofDataAt(now), txHash, "wallet", localDir, diskOk, failsAt)
        IN  /\ localDir' = up.dir
            /\ gfResult' = [present |-> TRUE, failsAt |-> failsAt, txHash |-> txHash,
                            proofData |-> ProofDataAt(now)] @@ up
            /\ trace' = Append(trace,
                   [call |-> "uploadProof", ok |-> ~up.thrown,
                    name |-> ObjectName(now, txHash),
                    onGreenfield |-> ~up.thrown /\ up.onGreenfield])
    /\ UNCHANGED now
    /\ StoreUnchanged

\* a call listProofs(limit); the provider lists the objects of the bucket by name
GfList ==
    /\ program = "store" /\ pc = "ready" /\ Len(trace) < MaxStoreCalls
    /\ \E limit \in 0..MaxLimit,
          remote \in {NoClient, ListFails, Listing(SortedNames(Bucket(trace)))} :
        trace' = Append(trace,
            [call |-> "listProofs", ok |-> TRUE, limit |-> limit,
             remote |-> remote.client /\ remote.listed,
             result |-> listProofs(limit, localDir, remote)])
    /\ UNCHANGED <<now, localDir, gfResult>>
    /\ StoreUnchanged

\* a second passes
GfTick ==
    /\ program = "store" /\ pc = "ready" /\ now < StartTime + MaxStoreTicks
    /\ now' = now + 1
    /\ UNCHANGED <<trace, localDir, gfResult>>
    /\ StoreUnchanged

GfNext == GfUpload \/ GfList \/ GfTick

SpecGf == GfInit /\ [][GfNext]_vars

-----------------------------------------------------------------------------
(* Properties of the archive client.                                          *)

\* C22: uploadProof does not throw because of a remote failure. A call that threw
\* made no remote call at all (the local write failed); a call in which a remote
\* step failed (no SDK client, provider lookup, provider address, checksums,
\* createObject, broadcast, uploadObject) returned onGreenfield = false and
\* greenfieldRef = keccak256(objectName), the reference and the object name that the
\* same call returns when every remote step succeeds.
C22_RemoteFailureIsNotRaised ==
    /\ gfResult.present =>
          /\ gfResult.thrown => gfResult.calls = <<"writeFileSync">>
          /\ (~gfResult.thrown /\ gfResult.failsAt # 0) =>
                /\ gfResult.onGreenfield = FALSE
                /\ gfResult.greenfieldRef = keccak256(gfResult.objectName)
          /\ ~gfResult.thrown => (gfResult.onGreenfield <=> gfResult.failsAt = 0)
    /\ \A txHash \in StoreTxHashes(now), failsAt \in RemoteFailures :
          LET failed == uploadProof(ProofDataAt(now), txHash, "wallet", localDir, TRUE, failsAt)
              fine   == uploadProof(ProofDataAt(now), txHash, "wallet", localDir, TRUE, 0)
          IN  /\ ~failed.thrown /\ ~fine.thrown /\ fine.onGreenfield
              /\ failed.objectName = fine.objectName
              /\ failed.greenfieldRef = fine.greenfieldRef
              /\ fine.greenfieldRef = keccak256(ObjectName(now, txHash))

\* createObject failed in the last call, after an upload that reached the bucket
C22_Witness ==
    /\ gfResult.present /\ ~gfResult.thrown
    /\ gfResult.failsAt = 5 /\ RemoteSteps[5] = "createObject"
    /\ ~gfResult.onGreenfield
    /\ Bucket(trace) # {}

\* C23: uploadProof writes the local copy before it makes any remote call, so after
\* every call that returned, with the remote upload done or failed at any step, the
\* directory holds the record under the object name returned; copies written by
\* earlier calls are still there.
C23_LocalCopyFirst ==
    /\ gfResult.present =>
          /\ gfResult.calls[1] = "writeFileSync"
          /\ \A i \in 2..Len(gfResult.calls) : gfResult.calls[i] # "writeFileSync"
          /\ ~gfResult.thrown =>
                /\ gfResult.objectName \in DOMAIN localDir
                /\ localDir[gfResult.objectName]
                     = ArchiveRecord(gfResult.proofData, gfResult.txHash, "wallet")
    /\ \A k \in Uploads(trace) : trace[k].name \in DOMAIN localDir

\* one call returned with the object uploaded and a later one with uploadObject failed
C23_Witness ==
    /\ gfResult.present /\ ~gfResult.thrown /\ gfResult.failsAt = 7
    /\ \E k \in Uploads(trace) : trace[k].onGreenfield /\ trace[k].name # gfResult.objectName
    /\ gfResult.objectName \in DOMAIN localDir

\* the calls of listProofs in the log
Lists == {k \in 1..Len(trace) : trace[k].call = "listProofs"}

\* the names in the result of the listProofs call k
Listed(k) == {trace[k].result[i].name : i \in 1..Len(trace[k].result)}

\* C24 as written: a call listProofs(limit) with limit >= 1 that follows a call of
\* uploadProof that returned lists the object name uploadProof returned, and the
\* payload stored under that name is the record that was archived.
C24_Original ==
    /\ \A k \in Lists :
          (k > 1 /\ (k - 1) \in Uploads(trace) /\ trace[k].limit >= 1)
              => trace[k - 1].name \in Listed(k)
    /\ (gfResult.present /\ ~gfResult.thrown) =>
          localDir[gfResult.objectName]
              = ArchiveRecord(gfResult.proofData, gfResult.txHash, "wallet")

\* C25 as written: listProofs(limit) returns at most limit entries, for every
\* limit >= 0, from the local directory as well as from the storage provider.
C25_Original ==
    \A k \in Lists : Len(trace[k].result) <= trace[k].limit

\* the last call before call k that archived the object name n in the store the
\* listProofs call k read (0: none)
ArchivedAt(n, k) ==
    LET writes == {u \in Uploads(trace) :
                      /\ u < k /\ trace[u].name = n
                      /\ trace[k].remote => trace[u].onGreenfield}
    IN  IF writes = {} THEN 0 ELSE CHOOSE u \in writes : \A v \in writes : v <= u

\* the object names in the store the listProofs call k read
Stored(k) ==
    {trace[u].name : u \in {v \in Uploads(trace) :
                               v < k /\ (trace[k].remote => trace[v].onGreenfield)}}

\* C26 as written: in a result of listProofs an entry archived later comes before an
\* entry archived earlier, and no entry left out was archived later than a returned one.
C26_Original ==
    \A k \in Lists :
        LET r == trace[k].result
        IN  /\ \A i, j \in 1..Len(r) :
                  i < j => ArchivedAt(r[i].name, k) > ArchivedAt(r[j].name, k)
            /\ \A n \in Stored(k) \ Listed(k) :
                  \A i \in 1..Len(r) : ArchivedAt(n, k) < ArchivedAt(r[i].name, k)
            /\ Stored(k) \ Listed(k) # {} => Len(r) = trace[k].limit

-----------------------------------------------------------------------------
(* Specification SpecSum: computeExpectChecksums as a function of the payload  *)
(* and of what the SDK offers.                                                 *)

\* the longest payload, in bytes
MaxPayload == 6

\* the payloads: every sequence of at most MaxPayload bytes, each byte 0 or 1
Payloads == UNION {[1..n -> {0, 1}] : n \in 0..MaxPayload}

\* the lengths of the array a helper of the SDK returns
HelperLengths == {6, 7}

Helpers == {HelperAbsent, HelperThrows} \cup {HelperReturns(n) : n \in HelperLengths}

\* the SDK: require throws, or the module with its helpers
SdkStates ==
    {[loads |-> FALSE, checksumObj |-> HelperAbsent, getCheckSums |-> HelperAbsent]}
        \cup {[loads |-> TRUE, checksumObj |-> a, getCheckSums |-> b] : a, b \in Helpers}

SumInit == program = "checksums" /\ LibraryInit

\* one call computeExpectChecksums(bytes)
ComputeChecksums ==
    /\ program = "checksums" /\ pc = "ready"
    /\ \E bytes \in Payloads, sdk \in SdkStates :
        LET out == computeExpectChecksums(bytes, sdk)
        IN  trace' = <<[call |-> "computeExpectChecksums", ok |-> ~out.thrown,
                        bytes |-> bytes, sdk |-> sdk, out |-> out]>>
    /\ pc' = "done"
    /\ UNCHANGED <<program, continuous, cliPrice, useLegacy, circuit, cycle, attempt, now>>
    /\ UNCHANGED <<provider, priceResult, proofData, localOk, gfResult, tx, receipt>>
    /\ UNCHANGED <<nProofs, txLog, localDir, submissions, ok, fail, faults>>
    /\ UNCHANGED <<aggVars, otherVars>>

SpecSum == SumInit /\ [][ComputeChecksums]_vars

\* the payload cut into EC_DATA pieces of size bytes each, the last ones padded with 0
ZeroPadded(bytes, size) ==
    [k \in 1..(EC_DATA * size) |-> IF k <= Len(bytes) THEN bytes[k] ELSE 0]

-----------------------------------------------------------------------------
(* Specification SpecProver: generateProof and verifyProof called on their     *)
(* own, as runTest of the prover and testZKProofs of run-tests.js call them.   *)

\* calls of generateProof and verifyProof in a run
MaxProverCalls == 3
\* the draws of randomBytes the model follows in one call of generateProof
MaxDraws == 2

\* the priceUSD arguments
ProverPrices == {1400, 2000}

\* the ts arguments: 0 for none (ts || Date.now() / 1000 takes the clock)
ProverTimestamps == {0, 1772}

\* what randomBytes returns in the successive iterations of the salt loop
DrawSeqs == [1..MaxDraws -> randomBytes(SaltBytes)]

\* the calls of generateProof in the log that returned
Proofs == {k \in 1..Len(trace) : trace[k].call = "generateProof" /\ trace[k].ok}

\* the calls of verifyProof in the log
Verifications == {k \in 1..Len(trace) : trace[k].call = "verifyProof"}

ProverInit ==
    /\ program = "prover" /\ continuous = FALSE /\ cliPrice = NoOverride /\ useLegacy = FALSE
    /\ aggPc = "off" /\ responses = <<>> /\ overridePrice = NoOverride
    /\ aggOut = NoResult /\ queried = {} /\ tampered = 0
    /\ OthersIdle
    /\ circuit \in InstalledCircuits
    /\ pc = "ready" /\ cycle = 0 /\ attempt = 0 /\ now = StartTime
    /\ provider = 0 /\ priceResult = NoResult /\ proofData = NoProofData
    /\ localOk = "none" /\ gfResult = NoValue /\ tx = NoValue /\ receipt = NoValue
    /\ trace = <<>> /\ nProofs = 0 /\ txLog = <<>>
    /\ localDir = <<>> /\ submissions = <<>> /\ ok = 0 /\ fail = 0 /\ faults = 0

ProverUnchanged ==
    /\ UNCHANGED <<program, continuous, cliPrice, useLegacy, circuit, cycle, attempt, now>>
    /\ UNCHANGED <<provider, priceResult, gfResult, tx, receipt>>
    /\ UNCHANGED <<txLog, localDir, submissions, ok, fail, faults>>
    /\ UNCHANGED <<aggVars, otherVars>>

\* a call generateProof(priceUSD, ts): checkCircuitFiles, the salt loop, fullProve.
\* When every draw the model follows is rejected the call is still in its loop.
ProverGenerate ==
    /\ program = "prover" /\ pc = "ready" /\ Len(trace) < MaxProverCalls
    /\ \E priceUSD \in ProverPrices, ts \in ProverTimestamps, draws \in DrawSeqs,
          engineOk \in BOOLEAN :
        LET sampled == SampleSalt(draws)
            clock   == IF ts = 0 THEN now ELSE ts
            out     == generateProof(priceUSD, clock, sampled.salt, engineOk, circuit,
                                     nProofs + 1)
            drew    == checkCircuitFiles(circuit)
        IN  IF drew /\ ~sampled.ended
            THEN /\ pc' = "sampling"
                 /\ trace' = Append(trace,
                        [call |-> "generateProof", ok |-> FALSE, priceUSD |-> priceUSD,
                         ts |-> ts, drawn |-> draws, out |-> NoProofData])
                 /\ UNCHANGED <<proofData, nProofs>>
            ELSE /\ pc' = pc
                 /\ trace' = Append(trace,
                        [call |-> "generateProof", ok |-> ~out.thrown,
                         priceUSD |-> priceUSD, ts |-> ts,
                         drawn |-> IF drew THEN SubSeq(draws, 1, sampled.iterations)
                                   ELSE <<>>,
                         out |-> out])
                 /\ proofData' = out
                 /\ nProofs' = IF out.thrown THEN nProofs ELSE nProofs + 1
    /\ UNCHANGED localOk
    /\ ProverUnchanged

\* publicSignals with entry i replaced by another value (i = 0: unchanged): another
\* commitment for entry 1, another number for entries 2 and 3
Replacements(publicSignals, i) ==
    IF i = 0 THEN {publicSignals}
    ELSE IF i = 1
    THEN {[publicSignals EXCEPT ![1] = c] :
             c \in ({Poseidon(publicSignals[2], publicSignals[3], BigInt(b)) :
                        b \in randomBytes(SaltBytes)}
                    \cup {Poseidon(publicSignals[2] + 1, publicSignals[3], publicSignals[1].poseidon[3])})
                   \ {publicSignals[1]}}
    ELSE {[publicSignals EXCEPT ![i] = v] :
             v \in {0, publicSignals[i] + 1, publicSignals[i] - 1}}

\* a call verifyProof(proof, publicSignals) on a proof generateProof returned, with
\* its public signals as returned or with one entry changed
ProverVerify ==
    /\ program = "prover" /\ pc = "ready" /\ Len(trace) < MaxProverCalls
    /\ \E k \in Proofs, i \in 0..3 :
        \E signals \in Replacements(trace[k].out.publicSignals, i) :
            LET valid == verifyProof(trace[k].out.proof, signals, circuit)
            IN  /\ localOk' = valid
                /\ trace' = Append(trace,
                       [call |-> "verifyProof", ok |-> valid # "throws", proofOf |-> k,
                        changed |-> i, publicSignals |-> signals, returned |-> valid])
    /\ UNCHANGED <<pc, proofData, nProofs>>
    /\ ProverUnchanged

ProverNext == ProverGenerate \/ ProverVerify

SpecProver == ProverInit /\ [][ProverNext]_vars

-----------------------------------------------------------------------------
(* Properties of generateProof and verifyProof.                               *)

\* the calls of generateProof in the log
Generations == {k \in 1..Len(trace) : trace[k].call = "generateProof"}

\* C28: the salt loop of generateProof ends after its first draw, because a number
\* of 31 bytes is below FIELD_MODULUS; the salt of every proof returned is that draw,
\* a number of 32 bytes (so not negative) below FIELD_MODULUS.
C28_SaltBelowModulus ==
    /\ program = "prover" => pc # "sampling"
    /\ \A k \in Generations :
          /\ Len(trace[k].drawn) <= 1
          /\ \A i \in 1..Len(trace[k].drawn) :
                LessThan(BigInt(trace[k].drawn[i]), FIELD_MODULUS)
          /\ trace[k].ok =>
                /\ Len(trace[k].drawn) = 1
                /\ trace[k].out.salt = BigInt(trace[k].drawn[1])
                /\ Len(trace[k].out.salt) = 32
                /\ \A i \in 1..32 : trace[k].out.salt[i] \in 0..255
                /\ LessThan(trace[k].out.salt, FIELD_MODULUS)

\* a proof whose salt is the largest number of 31 bytes
C28_Witness ==
    \E k \in Proofs :
        /\ trace[k].drawn = <<[i \in 1..31 |-> 255]>>
        /\ trace[k].out.salt[1] = 0 /\ trace[k].out.salt[2] = 255

\* C29: every call of generateProof that returns has drawn its salt from randomBytes
\* in that call, none takes it from an earlier call; two calls with the same price and
\* timestamp return different salts unless randomBytes returned the same 31 bytes in
\* both, and different salts give different commitments.
C29_FreshSaltEachCall ==
    /\ \A k \in Proofs :
          /\ trace[k].drawn # <<>>
          /\ trace[k].out.salt = BigInt(trace[k].drawn[Len(trace[k].drawn)])
    /\ \A k1, k2 \in Proofs :
          (/\ trace[k1].out.price = trace[k2].out.price
           /\ trace[k1].out.timestamp = trace[k2].out.timestamp)
              => /\ (trace[k1].out.salt = trace[k2].out.salt)
                        <=> (trace[k1].drawn = trace[k2].drawn)
                 /\ (trace[k1].out.commitment = trace[k2].out.commitment)
                        <=> (trace[k1].out.salt = trace[k2].out.salt)

\* two calls with the same price and timestamp, different salts and commitments
C29_Witness ==
    \E k1, k2 \in Proofs :
        /\ k1 < k2
        /\ trace[k1].priceUSD = trace[k2].priceUSD /\ trace[k1].ts = trace[k2].ts
        /\ trace[k1].out.timestamp = trace[k2].out.timestamp
        /\ trace[k1].out.salt # trace[k2].out.salt
        /\ trace[k1].out.commitment # trace[k2].out.commitment

-----------------------------------------------------------------------------
(* Specification SpecCommit: the keccak commitment of backend/zk/commitment.js, *)
(* generatePriceCommitment and verifyCommitment, as backend/test/run-tests.js   *)
(* calls them.                                                                  *)

\* calls of generatePriceCommitment and verifyCommitment in a run
MaxCommitCalls == 3

\* price8dec.toString(): the decimal text of a number
DecimalText(n) == [decimal |-> n]

\* BigInt(text) of a decimal text
ParseDecimal(text) == text.decimal

\* mutant: the salt is left out of the packed bytes
solidityPacked_Unsalted(price, timestamp, salt) == <<price, timestamp>>

\* ethers.solidityPacked(["uint256", "uint256", "bytes32"], [price, timestamp, salt]):
\* three words of 32 bytes, so different triples give different bytes
solidityPacked(price, timestamp, salt) == <<price, timestamp, salt>>

\* generatePriceCommitment(priceUSD) at time clock, when randomBytes(32) gives salt
generatePriceCommitment(priceUSD, clock, salt) ==
    LET timestamp  == clock
        price8dec  == ToFixedPoint(priceUSD)
        commitment == keccak256(solidityPacked(price8dec, timestamp, salt))
    IN  [proof   |-> [price |-> DecimalText(price8dec), priceUSD |-> priceUSD,
                      timestamp |-> timestamp, commitment |-> commitment,
                      source |-> "binance"],
         witness |-> [salt |-> salt, price8dec |-> DecimalText(price8dec),
                      timestamp |-> timestamp, commitment |-> commitment]]

\* verifyCommitment(price8dec, timestamp, salt, commitment)
verifyCommitment(price8dec, timestamp, salt, commitment) ==
    keccak256(solidityPacked(ParseDecimal(price8dec), timestamp, salt)) = commitment

\* the calls of generatePriceCommitment in the log
Commitments == {k \in 1..Len(trace) : trace[k].call = "generatePriceCommitment"}

\* the calls of verifyCommitment in the log
CommitChecks == {k \in 1..Len(trace) : trace[k].call = "verifyCommitment"}

CommitInit == program = "commit" /\ LibraryInit

CommitUnchanged ==
    /\ UNCHANGED <<program, continuous, cliPrice, useLegacy, circuit, pc, cycle, attempt>>
    /\ UNCHANGED <<provider, priceResult, proofData, localOk, gfResult, tx, receipt>>
    /\ UNCHANGED <<nProofs, txLog, localDir, submissions, ok, fail, faults>>
    /\ UNCHANGED <<aggVars, otherVars>>

\* a call generatePriceCommitment(priceUSD)
CommitGenerate ==
    /\ program = "commit" /\ pc = "ready" /\ Len(trace) < MaxCommitCalls
    /\ \E priceUSD \in ProverPrices, salt \in randomBytes(32) :
        trace' = Append(trace,
            [call |-> "generatePriceCommitment", ok |-> TRUE,
             out |-> generatePriceCommitment(priceUSD, now, salt)])
    /\ UNCHANGED now
    /\ CommitUnchanged

\* a call verifyCommitment(proof.price, proof.timestamp, salt, proof.commitment) on a
\* commitment generated before, with its own salt or with another one
CommitVerify ==
    /\ program = "commit" /\ pc = "ready" /\ Len(trace) < MaxCommitCalls
    /\ \E k \in Commitments, salt \in randomBytes(32) :
        LET proof == trace[k].out.proof
        IN  trace' = Append(trace,
                [call |-> "verifyCommitment", ok |-> TRUE, commitmentOf |-> k,
                 salt |-> salt,
                 returned |-> verifyCommitment(proof.price, proof.timestamp, salt,
                                               proof.commitment)])
    /\ UNCHANGED now
    /\ CommitUnchanged

\* a second passes
CommitTick ==
    /\ program = "commit" /\ pc = "ready" /\ now < StartTime + MaxStoreTicks
    /\ now' = now + 1
    /\ UNCHANGED trace
    /\ CommitUnchanged

CommitNext == CommitGenerate \/ CommitVerify \/ CommitTick

SpecCommit == CommitInit /\ [][CommitNext]_vars

\* C31: the commitment of generatePriceCommitment is keccak256 of the packed price,
\* timestamp and salt, so equal triples give equal commitments; verifyCommitment
\* called with the price, timestamp and commitment of a generated proof returns true
\* with the salt of its witness and false with every other salt.
C31_CommitmentBindsSalt ==
    /\ \A k \in Commitments :
          LET out == trace[k].out
          IN  /\ out.proof.commitment
                  = keccak256(solidityPacked(ToFixedPoint(out.proof.priceUSD),
                                             out.proof.timestamp, out.witness.salt))
              /\ verifyCommitment(out.proof.price, out.proof.timestamp,
                                  out.witness.salt, out.proof.commitment)
    /\ \A k1, k2 \in Commitments :
          (/\ trace[k1].out.proof.priceUSD = trace[k2].out.proof.priceUSD
           /\ trace[k1].out.proof.timestamp = trace[k2].out.proof.timestamp
           /\ trace[k1].out.witness.salt = trace[k2].out.witness.salt)
              => trace[k1].out.proof.commitment = trace[k2].out.proof.commitment
    /\ \A v \in CommitChecks :
          trace[v].returned
              <=> (trace[v].salt = trace[trace[v].commitmentOf].out.witness.salt)

\* one commitment verified with its salt and checked again with another salt
C31_Witness ==
    \E v1, v2 \in CommitChecks :
        /\ trace[v1].commitmentOf = trace[v2].commitmentOf
        /\ trace[v1].returned /\ ~trace[v2].returned
        /\ trace[v2].salt = [i \in 1..32 |-> 0]

-----------------------------------------------------------------------------
(* Properties of the arguments and of the records of a cycle.                 *)

\* C32: in every invocation of submitPriceWithProof of the current cycle, by agent.js
\* and by oracle-agent-zk.js, proof_a is the first two coordinates of pi_a, proof_c
\* the first two of pi_c, and proof_b the first two rows of pi_b in their order, each
\* with its two coordinates exchanged; the proof is the one the engine returned.
C32_SecondElementSwapped ==
    \A k \in SentThisCycle :
        txLog[k].fn = "submitPriceWithProof" =>
            LET args  == txLog[k].args
                proof == proofData.proof
            IN  /\ proofData.present
                /\ \E id \in 1..nProofs :
                      /\ proof.pi_a = <<<<"a0", id>>, <<"a1", id>>, <<"1", 0>>>>
                      /\ args.proof_a = <<<<"a0", id>>, <<"a1", id>>>>
                      /\ args.proof_b = << <<<<"b01", id>>, <<"b00", id>>>>,
                                           <<<<"b11", id>>, <<"b10", id>>>> >>
                      /\ args.proof_c = <<<<"c0", id>>, <<"c1", id>>>>
                /\ args.proof_a = SubSeq(proof.pi_a, 1, 2)
                /\ args.proof_c = SubSeq(proof.pi_c, 1, 2)
                /\ Len(args.proof_b) = 2
                /\ \A r \in 1..2 :
                      args.proof_b[r] = <<proof.pi_b[r][2], proof.pi_b[r][1]>>

\* a transaction of the second cycle of agent.js was sent with the second proof
C32_Witness ==
    /\ program = "agent" /\ cycle = 2 /\ nProofs = 2
    /\ \E k \in SentThisCycle :
          /\ txLog[k].fn = "submitPriceWithProof" /\ txLog[k].outcome = "sent"
          /\ txLog[k].args.proof_b[1] = <<<<"b01", 2>>, <<"b00", 2>>>>

-----------------------------------------------------------------------------
(* Specification SpecHealth: healthCheck() of backend/oracle/agent.js called
   while a single run of submitOnce is in progress.  Each action of healthCheck
   is the code between two awaits, so the two calls interleave at every await. *)

\* log(level, msg, data): the line appended to the log file and printed
LogLine(level, msg, data) == [level |-> level, msg |-> msg, data |-> data]

\* mutant: a step of healthCheck resets the attempt counter of the retry in progress
HealthFrame_SharedRetry ==
    /\ attempt' = 1
    /\ UNCHANGED <<program, continuous, cliPrice, useLegacy, circuit, pc, cycle, now,
                   provider, priceResult, proofData, localOk, gfResult, tx, receipt,
                   trace, nProofs, txLog, localDir, submissions, ok, fail, faults>>
    /\ UNCHANGED aggVars
    /\ UNCHANGED <<http, chain>>

\* nothing of the run is assigned by a step of healthCheck
HealthFrame ==
    /\ UNCHANGED agentVars
    /\ UNCHANGED aggVars
    /\ UNCHANGED <<http, chain>>

\* healthCheck() is called: log("info", "── Health Check ──"), then getProvider() is awaited
HealthCall ==
    /\ health.pc = "off"
    /\ health' = [pc |-> "provider", log |-> <<LogLine("info", "Health Check", <<>>)>>]
    /\ HealthFrame

\* const provider = await getProvider(): one warning per endpoint that is down,
\* and the throw after the loop leaves healthCheck
HealthProvider ==
    /\ health.pc = "provider"
    /\ \E up \in RpcStates :
        LET r    == getProvider(up)
            down == Cardinality({k \in r.probed : ~up[k]})
            warn == [k \in 1..down |-> LogLine("warn", "RPC down", <<>>)]
        IN  health' = [pc  |-> IF r.thrown THEN "threw" ELSE "balance",
                       log |-> health.log \o warn]
    /\ HealthFrame

\* const balance = await provider.getBalance(wallet.address); log("info", "Wallet", ...)
HealthBalance ==
    /\ health.pc = "balance"
    /\ \E answered \in BOOLEAN :
        health' = IF answered
                  THEN [pc  |-> "oracle",
                        log |-> Append(health.log, LogLine("info", "Wallet", <<>>))]
                  ELSE [health EXCEPT !.pc = "threw"]
    /\ HealthFrame

\* try { await oracle.latestPrice(); log("info", "Oracle", ...) } catch { log("warn", ...) },
\* then the two fs.existsSync and the last two lines
HealthOracle ==
    /\ health.pc = "oracle"
    /\ \E answered \in BOOLEAN :
        health' = [pc  |-> "returned",
                   log |-> health.log \o
                      << IF answered THEN LogLine("info", "Oracle", <<>>)
                                     ELSE LogLine("warn", "Oracle read failed", <<>>),
                         LogLine("info", "Circuit files", <<circuit.wasm, circuit.zkey>>),
                         LogLine("info", "Health OK", <<>>) >>]
    /\ HealthFrame

HealthCheck == HealthCall \/ HealthProvider \/ HealthBalance \/ HealthOracle

HealthInit == Init /\ program = "agent" /\ ~continuous /\ cliPrice = NoOverride

HealthNext == SubmitOnce \/ HealthCheck

SpecHealth == HealthInit /\ [][HealthNext]_vars

\* C33: a step of healthCheck sends no transaction, writes no archive entry and no
\* submission record, and changes nothing a running cycle reads or writes; the
\* steps of the cycle read none of healthCheck's state, so the cycle goes on from
\* the state it was in, whatever the interleaving.
C33_HealthCheckMutatesNothing ==
    [][ health' # health =>
          /\ txLog' = txLog /\ localDir' = localDir /\ submissions' = submissions
          /\ agentVars' = agentVars /\ aggVars' = aggVars ]_vars

\* healthCheck has probed the endpoints and read the balance while the cycle's
\* transaction is waiting for its receipt
C33_Witness ==
    /\ program = "agent" /\ pc = "confirm" /\ tx.present
    /\ health.pc = "oracle"
    /\ Len(health.log) >= 2

\* cycles of the run that returned a record so far
SuccessfulCycles == ok + (IF pc = "returned" THEN 1 ELSE 0)

\* C34 as stated: there are as many submission records as cycles that returned,
\* none for a cycle that threw, and a record once written is never changed or
\* replaced.  Violated: the file is named by proofData.timestamp, in whole
\* seconds, and writeFileSync replaces an existing file.
C34_Original ==
    [][ program = "agent" =>
          /\ Cardinality(DOMAIN submissions') = SuccessfulCycles'
          /\ \A n \in DOMAIN submissions :
                n \in DOMAIN submissions' /\ submissions'[n] = submissions[n] ]_vars

-----------------------------------------------------------------------------
(* Specification SpecLive: one call of submitOnce in which every external call
   eventually returns or throws, and in which the environment may cause any
   number of failures.  The fairness condition says that a call that is awaited
   is answered; nothing else is assumed. *)

\* the environment's failures are not limited here: the count starts again
ForgetFaults ==
    /\ program = "agent" /\ faults > 0
    /\ faults' = 0
    /\ UNCHANGED <<program, continuous, cliPrice, useLegacy, circuit, pc, cycle, attempt, now,
                   provider, priceResult, proofData, localOk, gfResult, tx, receipt,
                   trace, nProofs, txLog, localDir, submissions, ok, fail>>
    /\ UNCHANGED <<aggVars, otherVars>>

LiveInit == Init /\ program = "agent" /\ ~continuous

LiveNext == SubmitOnce \/ ForgetFaults

SpecLive == LiveInit /\ [][LiveNext]_vars /\ WF_vars(SubmitOnce)

\* submitOnce has returned its record (Done) or thrown (Failed)
Terminated == pc \in {"returned", "threw"}

\* the steps whose failure the cycle absorbs (try/catch around the archive)
Absorbed == {"uploadProof:pending", "uploadProof:tx"}

\* C36 as stated: the call terminates, within the attempt bounds, and a failure at
\* any step ends the cycle: a failed call is followed by nothing but its own retry.
\* Violated: a failed archive call is followed by the submit.
C36_Original ==
    /\ <>Terminated
    /\ [](\A r \in Retried : Cardinality(CallsOf(r[1])) <= r[2])
    /\ [](\A k \in DOMAIN trace :
             (~trace[k].ok /\ k < Len(trace)) => trace[k + 1].call = trace[k].call)

\* C36: a call of submitOnce whose external calls all return or fail ends in Done
\* or in Failed.  Until then getProvider, fetchAggregatedPrice, generateProof and
\* submitPriceWithProof are called at most 3, 3, 2 and 3 times; a failed call is
\* followed by nothing but its own retry, unless it is an archive call, whose
\* failure the cycle absorbs; and a cycle that has thrown ends with the failed call.
C36_SubmitOnceTerminates ==
    /\ <>Terminated
    /\ [](\A r \in Retried : Cardinality(CallsOf(r[1])) <= r[2])
    /\ [](\A k \in DOMAIN trace :
             (~trace[k].ok /\ k < Len(trace)) =>
                 \/ trace[k + 1].call = trace[k].call
                 \/ trace[k].call \in Absorbed)
    /\ [](pc = "threw" => Len(trace) > 0 /\ ~trace[Len(trace)].ok)

\* the longest failing run: every retry but the last has used all its attempts
\* but one, and the third submitPriceWithProof has failed
C36_Witness ==
    /\ program = "agent" /\ ~continuous /\ pc = "threw"
    /\ Cardinality(FailedCallsOf("getProvider")) = 2
    /\ Cardinality(FailedCallsOf("fetchAggregatedPrice")) = 2
    /\ Cardinality(FailedCallsOf("generateProof")) = 1
    /\ Cardinality(FailedCallsOf("submitPriceWithProof")) = 3

-----------------------------------------------------------------------------
(* The archive entry behind the reference that went on-chain.                 *)

\* the archive entries whose reference is ref: greenfieldRef is keccak256 of the
\* object name
EntriesAt(ref) == {n \in DOMAIN localDir : keccak256(n) = ref}

\* C37 as stated: when a cycle has returned, the archive entry identified by the
\* greenfieldRef submitted on-chain holds the cycle's transaction hash.  Violated:
\* the second uploadProof writes an object of another name, so the entry the
\* on-chain reference identifies still says "pending-<timestamp>".
C37_Original ==
    (program = "agent" /\ pc = "returned") =>
        \E k \in SentThisCycle :
            /\ txLog[k].outcome = "sent"
            /\ \E n \in EntriesAt(txLog[k].args.greenfieldRef) :
                  localDir[n].onChain.txHash = tx.hash

-----------------------------------------------------------------------------
(* The consensus and the median taken before the outlier filter.              *)

\* C39: in a result without override, the consensus price and every valid value
\* are within MAX_DEVIATION_BPS, as devBps computes it, of the median of all
\* successful values, and the consensus is not below the smallest and not above the
\* largest valid value.
C39_ConsensusNearFirstMedian ==
    (aggPc = "returned" /\ ~overridePrice.given) =>
        LET med1  == MedianOfIds(OkIds)
            vals  == Prices(aggOut.validSources)
        IN  /\ devBps(aggOut.price, med1) <= MAX_DEVIATION_BPS
            /\ \A k \in DOMAIN vals : devBps(vals[k], med1) <= MAX_DEVIATION_BPS
            /\ \E i, j \in DOMAIN vals : vals[i] <= aggOut.price /\ aggOut.price <= vals[j]

\* a source was filtered out, the consensus is not the first median, and a valid
\* value is exactly at the tolerance
C39_Witness ==
    /\ aggPc = "returned" /\ ~overridePrice.given
    /\ Len(aggOut.outliers) >= 1
    /\ aggOut.price # MedianOfIds(OkIds)
    /\ \E k \in DOMAIN aggOut.validSources :
          devBps(aggOut.validSources[k].price, MedianOfIds(OkIds)) = MAX_DEVIATION_BPS

-----------------------------------------------------------------------------
(* Specification SpecHttp: POST /oracle/submit of server.js.  Each request spawns
   the agent as a child process and arms a 60-second timer; the handlers of the
   child's close event and of the timer run as separate callbacks. *)

MaxRequests == 3

\* res.json / res.status().json called by `who` for request r.  The first call
\* sends the response; a later one throws ERR_HTTP_HEADERS_SENT inside the
\* callback, where nothing catches it, and the server process ends.
Respond(srv, r, who) ==
    [srv EXCEPT !.req[r].sent = Append(@, who),
                !.up = srv.req[r].sent = <<>>]

HttpFrame ==
    /\ UNCHANGED agentVars
    /\ UNCHANGED aggVars
    /\ UNCHANGED <<health, chain>>

\* a request arrives: requireAdmin answers 401 to a wrong key; reading
\* req.body.price throws when there is no parsed body and the catch answers 500;
\* otherwise the child is spawned, the listeners are attached and the timer is armed
PostSubmit ==
    /\ http.up /\ Len(http.req) < MaxRequests
    /\ \E keyOk, bodyOk \in BOOLEAN :
        LET r   == Len(http.req) + 1
            srv == [http EXCEPT !.req = Append(@, NoRequest)]
        IN  http' = IF ~keyOk THEN Respond(srv, r, "401")
                    ELSE IF ~bodyOk THEN Respond(srv, r, "500")
                    ELSE [srv EXCEPT !.req[r].child = "running", !.req[r].timer = "armed"]
    /\ HttpFrame

\* the child ends, by itself or after it was killed:
\* child.on("close", code => res.json({ success: code === 0, output, exitCode: code }))
ChildClose ==
    /\ http.up
    /\ \E r \in DOMAIN http.req :
        /\ http.req[r].child = "running"
        /\ http' = Respond([http EXCEPT !.req[r].child = "closed"], r, "close")
    /\ HttpFrame

\* setTimeout(() => { if (!child.killed) { child.kill(); res.json(...timeout...) } }, 60_000)
\* child.killed is set by a kill() that delivered its signal; the kill of a child
\* that has ended delivers none.  The killed child's close event follows as ChildClose.
SubmitTimeout ==
    /\ http.up
    /\ \E r \in DOMAIN http.req :
        /\ http.req[r].timer = "armed"
        /\ LET fired == [http EXCEPT !.req[r].timer = "fired"]
           IN  http' = IF http.req[r].killed THEN fired
                       ELSE Respond([fired EXCEPT !.req[r].killed =
                                                     http.req[r].child = "running"],
                                    r, "timeout")
    /\ HttpFrame

HttpInit == program = "server" /\ LibraryInit

HttpNext == PostSubmit \/ ChildClose \/ SubmitTimeout

SpecHttp == HttpInit /\ [][HttpNext]_vars

\* the calls of res.json made for request r by the close and the timeout handler
HandlerResponses(r) ==
    {k \in DOMAIN http.req[r].sent : http.req[r].sent[k] \in {"close", "timeout"}}

\* C38 as stated: for no request do the close handler and the timeout handler both
\* send a response, and no request gets more than one.  Violated: the timer is
\* never cleared and the close handler tests nothing, so whichever runs second
\* calls res.json on a response that was sent.
C38_Original ==
    \A r \in DOMAIN http.req :
        /\ Cardinality(HandlerResponses(r)) <= 1
        /\ Len(http.req[r].sent) <= 1

-----------------------------------------------------------------------------
(* Specification SpecVault: one CollateralVault deployed by VaultFactory for the
   account "owner", with the CreditNFT contract it mints on.  Each action is one
   transaction: it either runs to its end or reverts and changes no storage.
   Amounts of BNB are in whole BNB, the oracle price in whole dollars, credit in
   cents; one tick of block time is 30 days. *)

LTV_RATIO == 70
PRECISION == 100
THIRTY_DAYS == 1

\* ---- bounds ----
MaxBalance == 2
MaxTokens == 2
MaxBlockTime == 2

ZeroAddress == "0x0"
Accounts == {"owner", "stranger", "engine"}

\* the vault after VaultFactory.deployVault(); the owner is an account that accepts
\* a transfer of BNB, or a contract that does not (no payable receive, or one
\* needing more than the 2300 gas of transfer)
Deployed(payable) ==
    [deployed |-> TRUE, ownerPayable |-> payable,
     balance |-> 0, depositedBNB |-> 0, creditLineUSD |-> 0, debtUSD |-> 0,
     creditNFTId |-> 0, creditActive |-> FALSE, locked |-> FALSE,
     tokenIdCounter |-> 0, ownerOf |-> <<>>, creditLines |-> <<>>,
     time |-> 0,
     last |-> [fn |-> "constructor", sender |-> "factory", ok |-> TRUE,
               balanceBefore |-> 0, paid |-> 0, creditWasActive |-> FALSE, nftId |-> 0]]

\* the record of the transaction just executed
Transaction(fn, sender, succeeded, paid) ==
    [fn |-> fn, sender |-> sender, ok |-> succeeded,
     balanceBefore |-> chain.balance, paid |-> paid,
     creditWasActive |-> chain.creditActive, nftId |-> chain.creditNFTId]

\* the transaction reverts: storage and balances are as before
Revert(fn, sender) == chain' = [chain EXCEPT !.last = Transaction(fn, sender, FALSE, 0)]
\* the transaction succeeds and leaves storage c
Commit(c, fn, sender, paid) == chain' = [c EXCEPT !.last = Transaction(fn, sender, TRUE, paid)]

VaultFrame ==
    /\ UNCHANGED agentVars
    /\ UNCHANGED aggVars
    /\ UNCHANGED <<health, http>>

\* (depositedBNB * bnbPriceUSD * 100) / (BNB_DECIMALS * PRICE_DECIMALS)
CollateralValueCents(bnb, priceUSD) == bnb * priceUSD * 100

\* VerisOracle.getPrice as the vault sees it: a price, or the revert PriceStale
OracleAnswers ==
    {[fresh |-> FALSE, price |-> 0]} \cup {[fresh |-> TRUE, price |-> p] : p \in {1}}

\* CreditNFT.mint(to, limitCents, initialUsed, expiry, vault)
mint(c, to, limitCents, initialUsed, expiry) ==
    [c EXCEPT !.tokenIdCounter = @ + 1,
              !.ownerOf = Append(@, to),
              !.creditLines = Append(@, [creditLimitCents |-> limitCents,
                                         usedCents |-> initialUsed,
                                         expiry |-> expiry, active |-> TRUE])]

\* CreditNFT: ownerOf[tokenId], address(0) for a token that was never minted
OwnerOfToken(c, tokenId) ==
    IF tokenId \in DOMAIN c.ownerOf THEN c.ownerOf[tokenId] ELSE ZeroAddress

\* CreditNFT.revoke(tokenId) called by the vault: reverts for a token without owner
RevokeReverts(c, tokenId) == OwnerOfToken(c, tokenId) = ZeroAddress
revoke(c, tokenId) ==
    [c EXCEPT !.creditLines[tokenId].active = FALSE, !.ownerOf[tokenId] = ZeroAddress]

\* CreditNFT.verify(tokenId)
verify(c, tokenId) ==
    IF OwnerOfToken(c, tokenId) = ZeroAddress
    THEN [valid |-> FALSE, availableCents |-> 0, limitCents |-> 0]
    ELSE LET cl == c.creditLines[tokenId]
         IN  [valid |-> cl.active /\ c.time <= cl.expiry,
              availableCents |-> cl.creditLimitCents - cl.usedCents,
              limitCents |-> cl.creditLimitCents]

\* CreditNFT.spend(tokenId, amountCents, merchant) by sender does not revert
SpendSucceeds(c, sender, tokenId, amountCents) ==
    /\ OwnerOfToken(c, tokenId) # ZeroAddress
    /\ sender = OwnerOfToken(c, tokenId)
    /\ c.creditLines[tokenId].active
    /\ c.time <= c.creditLines[tokenId].expiry
    /\ c.creditLines[tokenId].usedCents + amountCents
          <= c.creditLines[tokenId].creditLimitCents

\* deposit() external payable onlyOwner
Deposit ==
    \E sender \in Accounts, value \in 0..1 :
        /\ chain.balance + value <= MaxBalance
        /\ IF sender # "owner" \/ value = 0 THEN Revert("deposit", sender)
           ELSE Commit([chain EXCEPT !.balance = @ + value, !.depositedBNB = @ + value],
                       "deposit", sender, 0)
        /\ VaultFrame

\* receive() external payable
Receive ==
    \E sender \in Accounts :
        /\ chain.balance + 1 <= MaxBalance
        /\ Commit([chain EXCEPT !.balance = @ + 1, !.depositedBNB = @ + 1],
                  "receive", sender, 0)
        /\ VaultFrame

\* requestCredit(requestedUSD) external onlyOwner
RequestCredit ==
    \E sender \in Accounts, requestedUSD \in {50, 100}, oracle \in OracleAnswers :
        /\ chain.tokenIdCounter < MaxTokens
        /\ IF \/ sender # "owner" \/ chain.creditActive \/ chain.depositedBNB = 0
              \/ ~oracle.fresh
           THEN Revert("requestCredit", sender)
           ELSE LET maxCreditCents ==
                        (CollateralValueCents(chain.depositedBNB, oracle.price) * LTV_RATIO)
                            \div PRECISION
                    c1 == [chain EXCEPT !.creditLineUSD = maxCreditCents,
                                        !.debtUSD = requestedUSD,
                                        !.creditActive = TRUE, !.locked = TRUE]
                    c2 == mint(c1, "owner", maxCreditCents, requestedUSD,
                               chain.time + THIRTY_DAYS)
                IN  IF requestedUSD > maxCreditCents THEN Revert("requestCredit", sender)
                    ELSE Commit([c2 EXCEPT !.creditNFTId = c2.tokenIdCounter],
                                "requestCredit", sender, 0)
        /\ VaultFrame

\* repay() external payable onlyOwner
Repay ==
    \E sender \in Accounts, oracle \in OracleAnswers :
        /\ chain.balance + 1 <= MaxBalance
        /\ IF sender # "owner" \/ ~chain.creditActive \/ ~oracle.fresh
           THEN Revert("repay", sender)
           ELSE LET repaidCents == CollateralValueCents(1, oracle.price)
                    paidIn == [chain EXCEPT !.balance = @ + 1]
                IN  IF repaidCents >= chain.debtUSD
                    THEN IF RevokeReverts(chain, chain.creditNFTId)
                         THEN Revert("repay", sender)
                         ELSE Commit(revoke([paidIn EXCEPT !.debtUSD = 0,
                                                           !.creditActive = FALSE,
                                                           !.locked = FALSE],
                                            chain.creditNFTId),
                                     "repay", sender, 0)
                    ELSE Commit([paidIn EXCEPT !.debtUSD = @ - repaidCents],
                                "repay", sender, 0)
        /\ VaultFrame

\* emergencyWithdraw() external onlyOwner.  The test of creditActive reads the
\* storage variable after it was assigned false.
EmergencyWithdraw ==
    \E sender \in Accounts :
        /\ IF sender # "owner" \/ chain.balance = 0
           THEN Revert("emergencyWithdraw", sender)
           ELSE LET c1 == [chain EXCEPT !.depositedBNB = 0, !.creditActive = FALSE,
                                        !.locked = FALSE]
                    revoking == c1.creditActive
                    c2 == IF revoking /\ ~RevokeReverts(c1, c1.creditNFTId)
                          THEN revoke(c1, c1.creditNFTId) ELSE c1
                IN  IF (revoking /\ RevokeReverts(c1, c1.creditNFTId)) \/ ~chain.ownerPayable
                    THEN Revert("emergencyWithdraw", sender)
                    ELSE Commit([c2 EXCEPT !.balance = 0],
                                "emergencyWithdraw", sender, chain.balance)
        /\ VaultFrame

\* liquidate() external onlyLiquidationEngine; LiquidationEngine has a payable receive
Liquidate ==
    \E sender \in Accounts :
        /\ IF sender # "engine" \/ RevokeReverts(chain, chain.creditNFTId)
           THEN Revert("liquidate", sender)
           ELSE Commit(revoke([chain EXCEPT !.depositedBNB = 0, !.creditActive = FALSE,
                                            !.locked = FALSE, !.debtUSD = 0,
                                            !.balance = 0],
                              chain.creditNFTId),
                       "liquidate", sender, chain.balance)
        /\ VaultFrame

\* CreditNFT.spend(tokenId, amountCents, merchant)
Spend ==
    \E sender \in Accounts, tokenId \in 1..MaxTokens, amountCents \in {50} :
        /\ IF SpendSucceeds(chain, sender, tokenId, amountCents)
           THEN Commit([chain EXCEPT !.creditLines[tokenId].usedCents = @ + amountCents],
                       "spend", sender, 0)
           ELSE Revert("spend", sender)
        /\ VaultFrame

\* a block 30 days later
NextBlock ==
    /\ chain.time < MaxBlockTime
    /\ chain' = [chain EXCEPT !.time = @ + 1]
    /\ VaultFrame

VaultInit ==
    /\ program = "contracts" /\ continuous = FALSE /\ cliPrice = NoOverride /\ useLegacy = FALSE
    /\ circuit = [wasm |-> TRUE, zkey |-> TRUE, vkey |-> "ok"]
    /\ AgentIdle
    /\ aggPc = "off" /\ responses = <<>> /\ overridePrice = NoOverride
    /\ aggOut = NoResult /\ queried = {} /\ tampered = 0
    /\ health = NoHealthCheck /\ http = ServerIdle
    /\ chain \in {Deployed(payable) : payable \in BOOLEAN}

VaultNext ==
    \/ Deposit \/ Receive \/ RequestCredit \/ Repay \/ EmergencyWithdraw \/ Liquidate
    \/ Spend \/ NextBlock

SpecVault == VaultInit /\ [][VaultNext]_vars

\* C35 as stated: a call of emergencyWithdraw by the owner on a vault with a
\* positive balance succeeds and pays out the whole balance, whatever locked,
\* creditActive and the debt are; a call by another account does not succeed.
\* Violated: the payout is payable(owner).transfer(balance), which reverts when the
\* owner is a contract that does not accept it.
C35_Original ==
    chain.last.fn = "emergencyWithdraw" =>
        /\ (chain.last.sender = "owner" /\ chain.last.balanceBefore > 0) =>
              /\ chain.last.ok
              /\ chain.last.paid = chain.last.balanceBefore
              /\ chain.balance = 0
        /\ chain.last.sender # "owner" => ~chain.last.ok

\* C40 as stated: after an emergencyWithdraw made while the credit line was active,
\* verify(creditNFTId) does not report a valid credit line and no spend on that
\* token succeeds.  Violated: emergencyWithdraw never calls revoke.
C40_Original ==
    (chain.last.fn = "emergencyWithdraw" /\ chain.last.ok /\ chain.last.creditWasActive) =>
        /\ ~verify(chain, chain.last.nftId).valid
        /\ \A sender \in Accounts :
              ~SpendSucceeds(chain, sender, chain.last.nftId, 50)

=============================================================================
